---------------------------- MODULE Spec2Model ----------------------------
(***************************************************************************)
(* Video multiplexer (scripts/video_multiplexer): per-stream state with    *)
(* broadcast wait/notify, the capture loop of StreamManager, the Kinect    *)
(* and Pi camera sources, and the protocol servers that read and mutate    *)
(* the streams.                                                            *)
(*                                                                         *)
(* Conventions.  scale_factor is kept in hundredths (1.0 is 100).  A JPEG  *)
(* payload is a record naming the capture that produced it, so two         *)
(* payloads are equal exactly when they come from the same capture.        *)
(* None stands for Python's None.                                          *)
(***************************************************************************)
EXTENDS Integers, Sequences, FiniteSets, TLC

None == "None"
Free == "free"
\* None where a JPEG payload is expected
NoFrame == [src |-> None]

(***************************************************************************)
(* Bounds of the model.                                                    *)
(***************************************************************************)
MaxCycles == 3   \* capture cycles started by the capture loop
MaxSpawns == 3   \* camera subprocesses launched
MaxImages == 1   \* images completed by the camera reader per subprocess
MaxRequests == 2   \* protocol requests handled (HTTP /switch, control lines)
MaxProbes == 2   \* check_availability calls made after startup

(***************************************************************************)
(* config.py                                                               *)
(***************************************************************************)
ALL_SOURCES == <<"kinect_rgb", "kinect_ir", "kinect_depth", "picam">>
KINECT_SOURCES == {"kinect_rgb", "kinect_ir", "kinect_depth"}
DEFAULT_SOURCE == "picam"
JPEG_QUALITY == 70
PICAM_PRESETS == {"low", "medium", "high", "full"}
DEFAULT_PICAM_PRESET == "high"
CV2_AVAILABLE == TRUE

\* update_settings clamps: quality to [1,100], scale to [0.25,2.0] (hundredths)
MinQuality == 1
MaxQuality == 100
MinScale == 25
MaxScale == 200
DefaultScale == 100

\* KinectCapture.max_failures
max_failures == 5

Range(f) == {f[x] : x \in DOMAIN f}

VARIABLES
  \* state.py ---------------------------------------------------------------
  streams,        \* GlobalState.streams: stream id -> StreamState record
  stream_order,   \* insertion order of GlobalState.streams (dict order)
  running,        \* GlobalState.running
  shut,           \* progress of a GlobalState.shutdown call
  \* sources/kinect.py, config.py ---------------------------------------------
  kinect,         \* KinectCapture: _available, consecutive_failures, and
                  \* the position (probe) and count (probes) of the
                  \* check_availability calls made after startup
  KINECT_AVAILABLE, \* config.KINECT_AVAILABLE (the live module global)
  FREENECT_AVAILABLE, \* config.FREENECT_AVAILABLE, fixed at import
  \* sources/picam.py ---------------------------------------------------------
  picam,          \* PiCameraCapture: the instances' fields (inst), the class
                  \* attributes _hardware_lock and _active_instance, and the
                  \* camera subprocesses of the system (live, next_pid)
  pcall,          \* thread -> the PiCameraCapture call it is executing
  reader,         \* the reader threads of the camera subprocesses
  \* manager.py ---------------------------------------------------------------
  mgr_running,    \* StreamManager._running
  cl,             \* the capture thread: position and locals of _capture_loop
  cycle,          \* capture cycles started so far
  mcall,          \* the StreamManager.start()/stop() call in progress
  \* servers ------------------------------------------------------------------
  conns,          \* streaming connection -> handler position and locals
  ctl,            \* control connection -> selected_stream cursor
  last_req,       \* the last protocol request handled and its reply
  orch            \* servers/orchestrator.py: the servers' running flags and
                  \* threads, and the main thread in run_forever

vars == << streams, stream_order, running, shut, kinect, KINECT_AVAILABLE,
           FREENECT_AVAILABLE, picam, pcall, reader, mgr_running, cl, cycle,
           mcall, conns, ctl, last_req, orch >>

stateVars == << streams, stream_order, running, shut >>
kinectVars == << kinect, KINECT_AVAILABLE, FREENECT_AVAILABLE >>
picamVars == << picam, pcall, reader >>
mgrVars == << mgr_running, cl, cycle, mcall >>
srvVars == << conns, ctl, last_req, orch >>

(***************************************************************************)
(* Identities.                                                             *)
(***************************************************************************)
StreamIds == {"main", "secondary", "aux"}
PiCams == {"shared", "other"}     \* get_picam()'s instance and one more
PThreads == {"t1", "t2"}            \* further threads calling PiCameraCapture
Conns == {"http1", "tcp1"}       \* streaming connections
CtlConns == {"ctl1", "ctl2"}        \* control connections

Created == Range(stream_order)

(***************************************************************************)
(* state.py: StreamState                                                   *)
(***************************************************************************)
NewStats == [frames_captured |-> 0, frames_sent |-> 0,
             clients_connected |-> 0, source_switches |-> 0]

\* StreamState.__init__
NewStream(initial_source) ==
  [current_source |-> IF initial_source = None THEN DEFAULT_SOURCE
                      ELSE initial_source,
   frame          |-> NoFrame,
   frame_id       |-> 0,
   jpeg_quality   |-> JPEG_QUALITY,
   scale_factor   |-> DefaultScale,
   picam_preset   |-> DEFAULT_PICAM_PRESET,
   stats          |-> NewStats,
   lock           |-> Free]

Max(a, b) == IF a >= b THEN a ELSE b
Min(a, b) == IF a <= b THEN a ELSE b

\* A quality that is stored as it comes
Unclamped(q) == q

\* max(1, min(100, int(q)))
ClampQuality(q) == Max(MinQuality, Min(MaxQuality, q))
\* max(0.25, min(2.0, float(s)))
ClampScale(s) == Max(MinScale, Min(MaxScale, s))

\* StreamState.set_frame, the fields it writes under the lock
set_frame(st, jpeg_bytes) ==
  [st EXCEPT !.frame = jpeg_bytes,
             !.frame_id = @ + 1,
             !.stats.frames_captured = @ + 1]

\* A set_source that restarts the stream's sequence
set_source_restarting(st, source) ==
  [st EXCEPT !.current_source = source, !.stats.source_switches = @ + 1,
             !.frame_id = 0]

\* StreamState.set_source
set_source(st, source) ==
  [st EXCEPT !.current_source = source,
             !.stats.source_switches = @ + 1]

\* StreamState.update_settings; kw is a record holding any of the three keys
update_settings(st, kw) ==
  LET a == IF "jpeg_quality" \in DOMAIN kw
           THEN [st EXCEPT !.jpeg_quality = ClampQuality(kw.jpeg_quality)]
           ELSE st
      b == IF "scale_factor" \in DOMAIN kw
           THEN [a EXCEPT !.scale_factor = ClampScale(kw.scale_factor)]
           ELSE a
  IN  IF "picam_preset" \in DOMAIN kw
      THEN [b EXCEPT !.picam_preset = kw.picam_preset]
      ELSE b

\* StreamState.increment_clients / decrement_clients / increment_frames_sent
increment_clients(st) == [st EXCEPT !.stats.clients_connected = @ + 1]
decrement_never(st) == st
decrement_clients(st) == [st EXCEPT !.stats.clients_connected = Max(0, @ - 1)]
increment_frames_sent(st) == [st EXCEPT !.stats.frames_sent = @ + 1]

\* config.get_available_sources
get_available_sources ==
  IF KINECT_AVAILABLE THEN Range(ALL_SOURCES) ELSE {"picam"}

(***************************************************************************)
(* sources/kinect.py: KinectCapture                                        *)
(*                                                                         *)
(* The hardware access layer and the image library are opaque.  One        *)
(* capture attempt either yields a frame ("data"), reads None from the     *)
(* sensor ("none"), raises before the frame is complete ("raise": the      *)
(* sensor read or the colour conversion), or reads a frame and raises in   *)
(* the scaling that follows the reset of the counter ("resize_raise";      *)
(* cv2.resize runs only when scale_factor is not 1.0).  kn is the pair of  *)
(* the instance fields and the config flag that                            *)
(* update_kinect_availability writes.                                      *)
(***************************************************************************)
HwOutcomes == {"data", "none", "raise", "resize_raise"}

\* The outcomes a capture with this scale_factor can have
OutcomesFor(scale_factor) ==
  IF scale_factor = DefaultScale THEN HwOutcomes \ {"resize_raise"}
  ELSE HwOutcomes

KinectState == [available |-> kinect.available,
                consecutive_failures |-> kinect.consecutive_failures,
                flag |-> KINECT_AVAILABLE]

\* A Kinect that always reports itself available
is_always_available(kn) == TRUE

\* KinectCapture.is_available
is_available(kn) == kn.available /\ FREENECT_AVAILABLE /\ CV2_AVAILABLE

\* KinectCapture._mark_unavailable
mark_unavailable(kn) == [kn EXCEPT !.available = FALSE, !.flag = FALSE]

\* KinectCapture._handle_failure
handle_failure(kn) ==
  LET k1 == [kn EXCEPT !.consecutive_failures = @ + 1]
  IN  IF k1.consecutive_failures >= max_failures
      THEN mark_unavailable(k1) ELSE k1

\* KinectCapture.check_availability, the instance after the probe
check_availability(kn, outcome) ==
  IF ~FREENECT_AVAILABLE \/ ~CV2_AVAILABLE
  THEN [kn EXCEPT !.available = FALSE, !.flag = FALSE]
  ELSE IF outcome = "data"
       THEN [kn EXCEPT !.available = TRUE, !.flag = TRUE,
                       !.consecutive_failures = 0]
       ELSE [kn EXCEPT !.available = FALSE, !.flag = FALSE]

\* get_frame line 139: "Success - reset failure counter"
reset_failures(kn) == [kn EXCEPT !.consecutive_failures = 0]

\* KinectCapture.get_frame: the instance after one capture attempt
kinect_get_frame(kn, outcome) ==
  IF ~is_available(kn) THEN kn
  ELSE IF outcome = "data" THEN reset_failures(kn)
  ELSE IF outcome = "resize_raise" THEN handle_failure(reset_failures(kn))
  ELSE handle_failure(kn)

\* A get_frame that reads the sensor whatever the availability
kinect_frame_unchecked(kn, outcome) == outcome = "data"

\* KinectCapture.get_frame: whether the attempt returns a frame
kinect_frame_ok(kn, outcome) == is_available(kn) /\ outcome = "data"

\* check_availability called while the program runs (lines 66-72): the
\* library test and the sensor read.  The method takes no lock, so its
\* writes interleave with the capture thread; probe is the line it is at.
ProbeBegin ==
  /\ kinect.probe = "idle"
  /\ kinect.probes < MaxProbes
  /\ \E outcome \in {"data", "none", "raise"} :
       kinect' = [kinect EXCEPT
                    !.probes = @ + 1,
                    !.probe = IF ~FREENECT_AVAILABLE \/ ~CV2_AVAILABLE
                              THEN "67"
                              ELSE IF outcome = "data" THEN "74" ELSE "82"]
  /\ UNCHANGED << KINECT_AVAILABLE, FREENECT_AVAILABLE >>

\* check_availability, one statement: lines 67-68 and 82-83 clear _available
\* and then the config flag; lines 74-76 set _available, set the config
\* flag, then reset consecutive_failures
ProbeWrite ==
  /\ kinect.probe # "idle"
  /\ kinect' =
       [kinect EXCEPT
          !.available = IF kinect.probe = "74" THEN TRUE
                        ELSE IF kinect.probe \in {"67", "82"} THEN FALSE
                        ELSE @,
          !.consecutive_failures = IF kinect.probe = "76" THEN 0 ELSE @,
          !.probe = IF @ = "67" THEN "68" ELSE IF @ = "82" THEN "83"
                    ELSE IF @ = "74" THEN "75" ELSE IF @ = "75" THEN "76"
                    ELSE "idle"]
  /\ KINECT_AVAILABLE' = IF kinect.probe = "75" THEN TRUE
                         ELSE IF kinect.probe \in {"68", "83"} THEN FALSE
                         ELSE KINECT_AVAILABLE
  /\ UNCHANGED FREENECT_AVAILABLE

(***************************************************************************)
(* sources/picam.py: PiCameraCapture                                       *)
(*                                                                         *)
(* process = 0 stands for None; a positive process is the pid of the       *)
(* subprocess the instance launched.  picam.live holds the pids of the     *)
(* camera subprocesses that are running.                                   *)
(***************************************************************************)
NewPiCam(cmd) ==
  [process |-> 0, lock |-> Free, frame_buffer |-> NoFrame, running |-> FALSE,
   current_preset |-> None, available_command |-> cmd, images |-> 0]

\* PiCameraCapture._stop_internal (caller holds the locks it holds)
stop_internal(pc, i) ==
  [pc EXCEPT !.inst[i].running = FALSE,
             !.inst[i].process = 0,
             !.inst[i].frame_buffer = NoFrame,
             !.inst[i].current_preset = None,
             !.inst[i].images = 0,
             !.live = @ \ {pc.inst[i].process},
             !.active_instance = IF @ = i THEN None ELSE @]

\* A start() that leaves the other instances alone
stop_nobody(pc, i) == pc

\* start(): "Stop any other active instance"
stop_other(pc, i) ==
  IF pc.active_instance # None /\ pc.active_instance # i
  THEN stop_internal(pc, pc.active_instance)
  ELSE pc

\* start(): subprocess.Popen succeeded; fields set in the try block
spawn(pc, i, preset) ==
  [pc EXCEPT !.inst[i].process = pc.next_pid,
             !.inst[i].running = TRUE,
             !.inst[i].current_preset = preset,
             !.live = @ \cup {pc.next_pid},
             !.next_pid = @ + 1,
             !.active_instance = i]

\* PiCameraCapture.get_frame
picam_get_frame(pc, i) == pc.inst[i].frame_buffer

\* A start() that treats no running instance as already started
running_never_same(pc, i, preset) == FALSE

\* start() lines 73-76: the instance already runs this preset
running_same(pc, i, preset) ==
  pc.inst[i].process # 0 /\ pc.inst[i].current_preset = preset

\* start() lines 73-76: a running instance with another preset is stopped
stop_for_restart(pc, i, preset) ==
  IF pc.inst[i].process # 0 /\ ~running_same(pc, i, preset)
  THEN stop_internal(pc, i) ELSE pc

\* PiCameraCapture.start(preset) as one step of a caller that finds both
\* locks free; popen_ok says whether subprocess.Popen succeeds
start(pc, i, preset, popen_ok) ==
  LET a == stop_other(pc, i)
      b == stop_for_restart(a, i, preset)
  IN  IF running_same(a, i, preset) THEN a
      ELSE IF ~b.inst[i].available_command THEN b
      ELSE IF popen_ok THEN spawn(b, i, preset)
      ELSE b

\* PiCameraCapture.stop() as one step of a caller that finds both locks free
stop(pc, i) == stop_internal(pc, i)

\* Both locks of a start()/stop() on instance i are free
LocksFree(pc, i) == pc.hardware_lock = Free /\ pc.inst[i].lock = Free

\* torn_down records, for the properties, that the call stopped the
\* instance's own running subprocess (line 76)
NoCall == [op |-> "none", inst |-> "shared", preset |-> None, pc |-> "idle",
           result |-> None, torn_down |-> FALSE]

\* Whether thread t is free to take lock value l
CanTake(l) == l = Free

\* start()/stop(): `with self._hardware_lock`
AcquireHardwareLock(t) ==
  /\ pcall[t].pc = "acquire_hw"
  /\ CanTake(picam.hardware_lock)
  /\ picam' = [picam EXCEPT !.hardware_lock = t]
  /\ pcall' = [pcall EXCEPT ![t].pc =
                 IF pcall[t].op = "start" THEN "stop_other" ELSE "acquire_lock"]

\* start(): lines 67-69
StartStopOther(t) ==
  /\ pcall[t].pc = "stop_other"
  /\ picam' = stop_other(picam, pcall[t].inst)
  /\ pcall' = [pcall EXCEPT ![t].pc = "acquire_lock"]

\* start()/stop(): `with self.lock`
AcquireInstanceLock(t) ==
  LET i == pcall[t].inst IN
  /\ pcall[t].pc = "acquire_lock"
  /\ CanTake(picam.inst[i].lock)
  /\ picam' = [picam EXCEPT !.inst[i].lock = t]
  /\ pcall' = [pcall EXCEPT ![t].pc =
                 IF pcall[t].op = "start" THEN "check" ELSE "stop_body"]

\* start(): lines 73-80: same preset is a no-op, another preset stops first,
\* no camera command returns False
StartCheck(t) ==
  LET i == pcall[t].inst
      p == pcall[t].preset
  IN
  /\ pcall[t].pc = "check"
  /\ IF running_same(picam, i, p)
     THEN /\ picam' = picam
          /\ pcall' = [pcall EXCEPT ![t].pc = "release", ![t].result = "True"]
     ELSE /\ picam' = stop_for_restart(picam, i, p)
          /\ IF ~picam.inst[i].available_command
             THEN pcall' = [pcall EXCEPT ![t].pc = "release",
                                         ![t].result = "False"]
             ELSE pcall' = [pcall EXCEPT ![t].pc = "popen",
                                         ![t].torn_down =
                                            picam.inst[i].process # 0]

\* start(): lines 84-110: Popen launches the subprocess, or raises
StartPopen(t) ==
  LET i == pcall[t].inst IN
  /\ pcall[t].pc = "popen"
  /\ \/ /\ picam.next_pid <= MaxSpawns
        /\ picam' = spawn(picam, i, pcall[t].preset)
        /\ pcall' = [pcall EXCEPT ![t].pc = "release", ![t].result = "True"]
     \/ /\ picam' = picam
        /\ pcall' = [pcall EXCEPT ![t].pc = "release", ![t].result = "False"]

\* stop(): line 178
StopBody(t) ==
  /\ pcall[t].pc = "stop_body"
  /\ picam' = stop_internal(picam, pcall[t].inst)
  /\ pcall' = [pcall EXCEPT ![t].pc = "release"]

\* leaving both `with` blocks
ReleaseLocks(t) ==
  LET i == pcall[t].inst IN
  /\ pcall[t].pc = "release"
  /\ picam' = [picam EXCEPT !.inst[i].lock = IF @ = t THEN Free ELSE @,
                            !.hardware_lock = IF @ = t THEN Free ELSE @]
  /\ pcall' = [pcall EXCEPT ![t].pc = "done"]

\* One step of the PiCameraCapture call thread t is executing
PicamStep(t) ==
  \/ AcquireHardwareLock(t)
  \/ StartStopOther(t)
  \/ AcquireInstanceLock(t)
  \/ StartCheck(t)
  \/ StartPopen(t)
  \/ StopBody(t)
  \/ ReleaseLocks(t)

\* A call that goes for the instance lock without the hardware lock
BeginCallInstanceFirst(op, i, preset) ==
  [op |-> op, inst |-> i, preset |-> preset, pc |-> "acquire_lock",
   result |-> None, torn_down |-> FALSE]

\* The call frame of a new start(preset) / stop() on instance i
BeginCall(op, i, preset) ==
  [op |-> op, inst |-> i, preset |-> preset, pc |-> "acquire_hw",
   result |-> None, torn_down |-> FALSE]

\* The camera process ends on its own (ProcessFailure)
ProcessExit(pid) ==
  /\ pid \in picam.live
  /\ picam' = [picam EXCEPT !.live = @ \ {pid}]

\* _capture_loop of the reader thread, as far as it publishes: one complete
\* image of the running subprocess becomes the frame buffer (`with self.lock`)
ReaderPublish(i) ==
  /\ picam.inst[i].running
  /\ picam.inst[i].process \in picam.live
  /\ picam.inst[i].lock = Free
  /\ picam.inst[i].images < MaxImages
  /\ picam' = [picam EXCEPT
       !.inst[i].images = @ + 1,
       !.inst[i].frame_buffer =
          [src |-> "picam", pid |-> picam.inst[i].process,
           preset |-> picam.inst[i].current_preset,
           n |-> picam.inst[i].images + 1]]

(***************************************************************************)
(* state.py: the condition variable of a stream.  The waiters of stream    *)
(* s are the connections blocked in frame_condition.wait on it.            *)
(***************************************************************************)
\* A notify_all that wakes nobody
notify_nobody(cn, s, cause) == cn

\* Condition.notify_all on stream s: every waiter leaves the wait set and
\* has to take the lock again before wait() returns True
notify_all(cn, s, cause) ==
  [c \in DOMAIN cn |->
     IF cn[c].pc = "waiting" /\ cn[c].stream = s
     THEN [cn[c] EXCEPT !.pc = "notified", !.woke_by = cause]
     ELSE cn[c]]

(***************************************************************************)
(* manager.py: StreamManager                                               *)
(***************************************************************************)
\* StreamManager.get_stream via GlobalState.get_stream (dict.get)
get_stream(stream_id) ==
  IF stream_id \in Created THEN stream_id ELSE None

\* The sources of the streams in registry order, first occurrence first
RECURSIVE SourceKeys(_, _)
SourceKeys(order, seen) ==
  IF order = << >> THEN << >>
  ELSE LET src == streams[Head(order)].current_source IN
       IF src \in seen THEN SourceKeys(Tail(order), seen)
       ELSE <<src>> \o SourceKeys(Tail(order), seen \cup {src})

\* The streams of `order` that select `src`, in registry order
RECURSIVE StreamsOf(_, _)
StreamsOf(order, src) ==
  IF order = << >> THEN << >>
  ELSE IF streams[Head(order)].current_source = src
       THEN <<Head(order)>> \o StreamsOf(Tail(order), src)
       ELSE StreamsOf(Tail(order), src)

\* A partition with one entry per stream instead of one per source
one_entry_per_stream ==
  [k \in 1..Len(stream_order) |->
     [source |-> streams[stream_order[k]].current_source,
      streams |-> << stream_order[k] >>]]

\* StreamManager._get_active_sources: the dict source -> [streams], as the
\* sequence of its items in insertion order
get_active_sources ==
  LET keys == SourceKeys(stream_order, {}) IN
  [k \in 1..Len(keys) |->
     [source |-> keys[k], streams |-> StreamsOf(stream_order, keys[k])]]

\* `src in source_to_streams`
HasSource(part, src) == \E k \in 1..Len(part) : part[k].source = src

\* source_to_streams[src]
ItemOf(part, src) == part[CHOOSE k \in 1..Len(part) : part[k].source = src]

NoFrames == [s \in StreamIds |-> NoFrame]

InitLoop ==
  [pc |-> "not_started", source_to_streams |-> << >>,
   last_picam_preset |-> None, picam_running |-> FALSE,
   idx |-> 0, jpeg_bytes |-> NoFrame, todo |-> << >>,
   \* bookkeeping of the current cycle, read by the properties only:
   \* the sources captured, the sequence numbers at the start of the
   \* cycle, the bytes pushed to each stream, whether the cycle raised
   \* and whether the Kinect was available when the cycle began
   attempts |-> << >>, start_ids |-> [s \in StreamIds |-> 0],
   \* whether the Pi camera held an image then, the camera subprocesses
   \* that had ended by then, and the number of cycles that raised so far
   pushed |-> NoFrames, raised |-> FALSE, kinect_at_start |-> FALSE,
   picam_at_start |-> FALSE, exited_at_start |-> {}, errors |-> 0]

\* StreamManager.start
ManagerStart ==
  /\ ~mgr_running
  /\ cl.pc = "not_started"
  /\ mgr_running' = TRUE
  /\ cl' = [cl EXCEPT !.pc = "test"]
  /\ UNCHANGED << stateVars, kinectVars, picamVars, cycle, mcall, srvVars >>

\* _capture_loop lines 151-153: the loop test, then the partition of the
\* streams by their current source
CycleBegin ==
  /\ cl.pc = "test"
  /\ mgr_running /\ running
  /\ cycle < MaxCycles
  /\ cycle' = cycle + 1
  /\ cl' = [cl EXCEPT !.pc = "picam_manage",
                      !.source_to_streams = get_active_sources,
                      !.attempts = << >>,
                      !.start_ids = [s \in StreamIds |->
                          IF s \in Created THEN streams[s].frame_id ELSE 0],
                      !.pushed = NoFrames,
                      !.raised = FALSE,
                      !.kinect_at_start = is_available(KinectState),
                      !.picam_at_start =
                         picam_get_frame(picam, "shared") # NoFrame,
                      !.exited_at_start =
                         (1..(picam.next_pid - 1)) \ picam.live]
  /\ UNCHANGED << stateVars, kinectVars, picamVars, mgr_running, mcall,
                  srvVars >>

\* _capture_loop lines 156-167: the Pi camera follows the first picam stream
PicamManage ==
  LET picam_needed == HasSource(cl.source_to_streams, "picam")
      item == ItemOf(cl.source_to_streams, "picam")
      preset == streams[item.streams[1]].picam_preset
  IN
  /\ cl.pc = "picam_manage"
  /\ IF picam_needed
     THEN IF ~cl.picam_running \/ preset # cl.last_picam_preset
          THEN /\ LocksFree(picam, "shared")
               /\ \E popen_ok \in BOOLEAN :
                    /\ popen_ok => picam.next_pid <= MaxSpawns
                    /\ picam' = start(picam, "shared", preset, popen_ok)
               /\ cl' = [cl EXCEPT !.pc = "capture", !.idx = 1,
                                   !.last_picam_preset = preset,
                                   !.picam_running = TRUE]
          ELSE /\ picam' = picam
               /\ cl' = [cl EXCEPT !.pc = "capture", !.idx = 1]
     ELSE IF cl.picam_running
          THEN /\ LocksFree(picam, "shared")
               /\ picam' = stop(picam, "shared")
               /\ cl' = [cl EXCEPT !.pc = "capture", !.idx = 1,
                                   !.last_picam_preset = None,
                                   !.picam_running = FALSE]
          ELSE /\ picam' = picam
               /\ cl' = [cl EXCEPT !.pc = "capture", !.idx = 1]
  /\ UNCHANGED << stateVars, kinectVars, pcall, reader, mgr_running, cycle,
                  mcall, srvVars >>

\* An encode with the configured defaults, whatever the streams ask for
EncodeDefault(source, first) ==
  [src |-> source, n |-> cycle, quality |-> JPEG_QUALITY,
   scale |-> DefaultScale]

\* cv2.imencode of a captured Kinect frame: the bytes of this capture,
\* encoded once with the first stream's quality and scale
Encode(source, first) ==
  [src |-> source, n |-> cycle, quality |-> streams[first].jpeg_quality,
   scale |-> streams[first].scale_factor]

\* A loop that serves the streams whatever the capture returned
AlwaysBytes(jpeg_bytes) == TRUE

\* _capture_loop line 172: `if jpeg_bytes:` decides whether the streams of
\* the source are served
HasBytes(jpeg_bytes) == jpeg_bytes # NoFrame

\* What the loop does with the result of _capture_source (lines 171-174)
AfterCapture(c, jpeg_bytes, targets) ==
  IF HasBytes(jpeg_bytes)
  THEN [c EXCEPT !.pc = "distribute", !.jpeg_bytes = jpeg_bytes,
                 !.todo = targets]
  ELSE [c EXCEPT !.idx = @ + 1, !.jpeg_bytes = NoFrame]

\* A capture thread that dies of the exception
ExceptionEndsLoop(c) ==
  [c EXCEPT !.pc = "exited", !.raised = TRUE, !.errors = @ + 1]

\* _capture_loop lines 178-181: the exception is caught inside the loop,
\* which sleeps and goes back to its test
OnException(c) ==
  [c EXCEPT !.pc = "test", !.raised = TRUE, !.errors = @ + 1]

\* _capture_loop line 171 with _capture_source (lines 187-229) for a Kinect
\* source: one get_frame and one encode, which may raise (lines 178-181)
CaptureKinect ==
  /\ cl.pc = "capture"
  /\ cl.idx <= Len(cl.source_to_streams)
  /\ LET item == cl.source_to_streams[cl.idx]
         c1 == [cl EXCEPT !.attempts = Append(@, item.source)]
     IN
     /\ item.source \in KINECT_SOURCES
     /\ \E outcome \in OutcomesFor(streams[item.streams[1]].scale_factor),
           enc \in {"ok", "raise"} :
          LET kn == kinect_get_frame(KinectState, outcome) IN
          /\ kinect' = [kinect EXCEPT
                          !.available = kn.available,
                          !.consecutive_failures = kn.consecutive_failures]
          /\ KINECT_AVAILABLE' = kn.flag
          /\ IF kinect_frame_ok(KinectState, outcome)
             THEN IF enc = "ok"
                  THEN cl' = AfterCapture(c1, Encode(item.source,
                                          item.streams[1]), item.streams)
                  ELSE cl' = OnException(c1)
             ELSE /\ enc = "ok"
                  /\ cl' = AfterCapture(c1, NoFrame, item.streams)
  /\ UNCHANGED << stateVars, FREENECT_AVAILABLE, picamVars,
                  mgr_running, cycle, mcall, srvVars >>

\* _capture_loop line 171 with _capture_source for picam: the frame buffer
CapturePicam ==
  /\ cl.pc = "capture"
  /\ cl.idx <= Len(cl.source_to_streams)
  /\ LET item == cl.source_to_streams[cl.idx]
         c1 == [cl EXCEPT !.attempts = Append(@, item.source)]
     IN
     /\ item.source = "picam"
     /\ picam.inst["shared"].lock = Free
     /\ cl' = AfterCapture(c1, picam_get_frame(picam, "shared"), item.streams)
  /\ UNCHANGED << stateVars, kinectVars, picamVars, mgr_running, cycle, mcall,
                  srvVars >>

\* _capture_loop lines 173-174: stream.set_frame(jpeg_bytes), one stream at
\* a time, each under that stream's own lock; after the last one the outer
\* loop moves to the next source
Distribute ==
  /\ cl.pc = "distribute"
  /\ LET s == Head(cl.todo) IN
     /\ streams[s].lock = Free
     /\ streams' = [streams EXCEPT ![s] = set_frame(@, cl.jpeg_bytes)]
     /\ conns' = notify_all(conns, s, "frame")
     /\ cl' = IF Tail(cl.todo) = << >>
              THEN [cl EXCEPT !.todo = << >>, !.pushed[s] = cl.jpeg_bytes,
                              !.pc = "capture", !.idx = @ + 1,
                              !.jpeg_bytes = NoFrame]
              ELSE [cl EXCEPT !.todo = Tail(@), !.pushed[s] = cl.jpeg_bytes]
  /\ UNCHANGED << stream_order, running, shut, kinectVars, picamVars,
                  mgr_running, cycle, mcall, ctl, last_req, orch >>

\* _capture_loop line 176: every source is served, time.sleep(FRAME_INTERVAL)
CycleEnd ==
  /\ cl.pc = "capture"
  /\ cl.idx > Len(cl.source_to_streams)
  /\ cl' = [cl EXCEPT !.pc = "test"]
  /\ UNCHANGED << stateVars, kinectVars, picamVars, mgr_running, cycle, mcall,
                  srvVars >>

\* _capture_loop lines 151, 184-185: a flag is false, the loop ends with
\* kinect.stop() and picam.stop()
Cleanup ==
  /\ cl.pc = "test"
  /\ ~(mgr_running /\ running)
  /\ LocksFree(picam, "shared")
  /\ picam' = stop(picam, "shared")
  /\ cl' = [cl EXCEPT !.pc = "exited"]
  /\ UNCHANGED << stateVars, kinectVars, pcall, reader, mgr_running, cycle,
                  mcall, srvVars >>

\* The camera: the reader thread of the shared instance publishes an image
CameraPublish ==
  /\ ReaderPublish("shared")
  /\ UNCHANGED << stateVars, kinectVars, pcall, reader, mgrVars, srvVars >>

(***************************************************************************)
(* servers/http_server.py send_mjpeg_stream and servers/tcp_server.py      *)
(* TCPStreamHandler.handle: one thread per streaming connection, looping   *)
(* over StreamState.get_frame and a network send.                          *)
(***************************************************************************)
ConnKind(c) == IF c = "tcp1" THEN "tcp" ELSE "http"

\* A loop condition that reads the server's own flag only
own_flag_only(server_running) == server_running

\* `while self.running and global_state.running` (tcp_server.py lines 55 and
\* 143, control_server.py lines 70 and 103)
loop_flags(server_running) == server_running /\ running

\* The loop condition of a streaming connection: `while self.running and
\* global_state.running` (tcp line 55), `while global_state.running` (http
\* line 105)
ConnContinues(c) ==
  IF ConnKind(c) = "tcp" THEN loop_flags(orch.handler_running) ELSE running

\* The stream ids a connection may ask for: /stream/<id> names any id; the
\* raw TCP server is bound to 'secondary' (orchestrator.start_servers)
Requested(c) == IF ConnKind(c) = "tcp" THEN {"secondary"} ELSE StreamIds

NewConn == [pc |-> "new", stream |-> None, last_frame_id |-> 0,
            frame |-> NoFrame, woke_by |-> "none"]

\* send_mjpeg_stream lines 87-102 / handle lines 42-49
ConnOpen(c) ==
  /\ conns[c].pc = "new"
  /\ \E sid \in Requested(c) :
       IF get_stream(sid) = None
       THEN /\ conns' = [conns EXCEPT ![c].pc = "closed"]
            /\ streams' = streams
       ELSE /\ streams[sid].lock = Free
            /\ streams' = [streams EXCEPT ![sid] = increment_clients(@)]
            /\ conns' = [conns EXCEPT ![c].pc = "loop", ![c].stream = sid,
                                      ![c].last_frame_id = 0]
  /\ UNCHANGED << stream_order, running, shut, kinectVars, picamVars,
                  mgrVars, ctl, last_req, orch >>

\* tcp lines 57-75: the non-blocking recv of one command byte; only a
\* closed peer ends the handler
PollResults(c) ==
  IF ConnKind(c) = "tcp" THEN {"nothing", "ping", "status", "eof"}
  ELSE {"nothing"}

\* `while global_state.running` (http line 105, tcp line 55), the TCP poll,
\* then get_frame line 77: `with self.frame_condition` takes the stream lock
ConnLoop(c) ==
  LET s == conns[c].stream IN
  /\ conns[c].pc = "loop"
  /\ IF ~ConnContinues(c)
     THEN /\ conns' = [conns EXCEPT ![c].pc = "finally"]
          /\ streams' = streams
     ELSE \E cmd \in PollResults(c) :
            IF cmd = "eof"
            THEN /\ conns' = [conns EXCEPT ![c].pc = "finally"]
                 /\ streams' = streams
            ELSE /\ streams[s].lock = Free
                 /\ streams' = [streams EXCEPT ![s].lock = c]
                 /\ conns' = [conns EXCEPT ![c].pc = "gf_test",
                                           ![c].woke_by = "none"]
  /\ UNCHANGED << stream_order, running, shut, kinectVars, picamVars,
                  mgrVars, ctl, last_req, orch >>

\* A get_frame that never waits
MustWaitNever(st, last_frame_id) == FALSE

\* get_frame line 80: the loop condition
MustWait(st, last_frame_id) == st.frame_id = last_frame_id

\* A wait that keeps the lock while blocked
LockKeptWhileWaiting(c) == c

\* get_frame line 84: Condition.wait gives up the lock while blocked
LockWhileWaiting(c) == Free

\* A get_frame that reports the sequence before the one it read
ReturnedStale(cn, frame, frame_id) ==
  [cn EXCEPT !.frame = frame, !.last_frame_id = Max(0, frame_id - 1),
             !.woke_by = "none",
             !.pc = IF frame = NoFrame THEN "loop" ELSE "sending"]

\* The connection's locals after get_frame returned (frame, frame_id):
\* `if frame is None: continue`, else the frame is sent
Returned(cn, frame, frame_id) ==
  [cn EXCEPT !.frame = frame, !.last_frame_id = frame_id,
             !.woke_by = "none",
             !.pc = IF frame = NoFrame THEN "loop" ELSE "sending"]

\* get_frame lines 80-87 with the lock held: return the new frame, give up
\* on an elapsed deadline, or wait.  The deadline cannot have elapsed before
\* the first wait of the call (timeout is 1.0 s / 0.1 s).
GetFrameTest(c) ==
  LET s == conns[c].stream IN
  /\ conns[c].pc = "gf_test"
  /\ streams[s].lock = c
  /\ IF MustWait(streams[s], conns[c].last_frame_id)
     THEN \/ /\ conns[c].woke_by # "none"
             /\ conns' = [conns EXCEPT ![c] =
                            Returned(@, NoFrame, conns[c].last_frame_id)]
             /\ streams' = [streams EXCEPT ![s].lock = Free]
          \/ /\ conns' = [conns EXCEPT ![c].pc = "waiting"]
             /\ streams' = [streams EXCEPT ![s].lock = LockWhileWaiting(c)]
     ELSE /\ conns' = [conns EXCEPT ![c] =
                         Returned(@, streams[s].frame, streams[s].frame_id)]
          /\ streams' = [streams EXCEPT ![s].lock = Free]
  /\ UNCHANGED << stream_order, running, shut, kinectVars, picamVars,
                  mgrVars, ctl, last_req, orch >>

\* get_frame line 84: the timeout of wait() elapses with no notification;
\* the waiter has still to take the lock again, and a later notify_all no
\* longer changes what wait() returns
WaitExpire(c) ==
  /\ conns[c].pc = "waiting"
  /\ conns' = [conns EXCEPT ![c].pc = "expired"]
  /\ UNCHANGED << stateVars, kinectVars, picamVars, mgrVars, ctl, last_req,
                  orch >>

\* get_frame lines 84-85: the expired wait() takes the lock again and
\* returns False; get_frame returns (None, last_frame_id)
WaitTimeout(c) ==
  LET s == conns[c].stream IN
  /\ conns[c].pc = "expired"
  /\ streams[s].lock = Free
  /\ conns' = [conns EXCEPT ![c] =
                 Returned(@, NoFrame, conns[c].last_frame_id)]
  /\ UNCHANGED << stateVars, kinectVars, picamVars, mgrVars, ctl, last_req,
                  orch >>

\* get_frame line 84: a notified waiter takes the lock again, wait() returns
\* True and the loop condition is tested again
WaitWake(c) ==
  LET s == conns[c].stream IN
  /\ conns[c].pc = "notified"
  /\ streams[s].lock = Free
  /\ streams' = [streams EXCEPT ![s].lock = c]
  /\ conns' = [conns EXCEPT ![c].pc = "gf_test"]
  /\ UNCHANGED << stream_order, running, shut, kinectVars, picamVars,
                  mgrVars, ctl, last_req, orch >>

\* http lines 111-122 / tcp lines 83-89: the network write, outside any
\* lock, then stream.increment_frames_sent(); a failed write ends the loop
ConnSend(c) ==
  LET s == conns[c].stream IN
  /\ conns[c].pc = "sending"
  /\ \E ok \in BOOLEAN :
       IF ok
       THEN /\ streams[s].lock = Free
            /\ streams' = [streams EXCEPT ![s] = increment_frames_sent(@)]
            /\ conns' = [conns EXCEPT ![c].frame = NoFrame, ![c].pc = "loop"]
       ELSE /\ streams' = streams
            /\ conns' = [conns EXCEPT ![c].frame = NoFrame,
                                      ![c].pc = "finally"]
  /\ UNCHANGED << stream_order, running, shut, kinectVars, picamVars,
                  mgrVars, ctl, last_req, orch >>

\* finally: stream.decrement_clients()
ConnFinally(c) ==
  LET s == conns[c].stream IN
  /\ conns[c].pc = "finally"
  /\ streams[s].lock = Free
  /\ streams' = [streams EXCEPT ![s] = decrement_clients(@)]
  /\ conns' = [conns EXCEPT ![c].pc = "closed"]
  /\ UNCHANGED << stream_order, running, shut, kinectVars, picamVars,
                  mgrVars, ctl, last_req, orch >>

(***************************************************************************)
(* state.py: GlobalState.shutdown                                          *)
(***************************************************************************)
\* line 189: self.running = False
ShutdownBegin ==
  /\ shut.pc = "idle"
  /\ running' = FALSE
  /\ shut' = [pc |-> "notify", todo |-> stream_order]
  /\ UNCHANGED << streams, stream_order, kinectVars, picamVars, mgrVars,
                  srvVars >>

\* lines 192-194: notify_all under each stream's condition, one at a time
ShutdownNotify ==
  /\ shut.pc = "notify"
  /\ streams[Head(shut.todo)].lock = Free
  /\ conns' = notify_all(conns, Head(shut.todo), "shutdown")
  /\ shut' = [shut EXCEPT !.todo = Tail(@),
                          !.pc = IF Tail(shut.todo) = << >> THEN "done"
                                 ELSE "notify"]
  /\ UNCHANGED << streams, stream_order, running, kinectVars, picamVars,
                  mgrVars, ctl, last_req, orch >>

(***************************************************************************)
(* servers/tcp_server.py TCPStreamServer, servers/control_server.py        *)
(* ControlServer and servers/orchestrator.py: the servers' running flags,  *)
(* their accept threads, the HTTP serve_forever threads and the main       *)
(* thread in run_forever.                                                  *)
(***************************************************************************)
\* A server object after __init__: running is False, no accept thread
NewServer == [running |-> FALSE, pc |-> "not_started"]

\* ServerOrchestrator after start_servers() configured it: nothing runs.
\* handler_running is TCPStreamHandler.running of the raw TCP connection,
\* http the serve_forever threads, main the main thread's position in
\* run_forever, stack the stop_all() calls in progress on the main thread
\* (the innermost last), signals the signals delivered so far.
\* http_request is socketserver's __shutdown_request; its __is_shut_down
\* event is set exactly when http is "stopped".
InitOrch ==
  [tcp |-> NewServer, control |-> NewServer, handler_running |-> TRUE,
   http |-> "not_started", http_request |-> FALSE, main |-> "install",
   stack |-> << >>, signals |-> 0]

\* ServerOrchestrator after start_all(): the accept threads and the
\* serve_forever threads run, the main thread sleeps in its loop
ServingOrch ==
  [InitOrch EXCEPT !.tcp = [running |-> TRUE, pc |-> "test"],
                   !.control = [running |-> TRUE, pc |-> "test"],
                   !.http = "serving", !.main = "loop"]

\* TCPStreamServer._accept_loop lines 141-159, one iteration: the loop
\* test, then accept(), which returns within its 1.0 s timeout (line 133);
\* a timeout, an accepted client (whose handler thread is started) and an
\* error all lead back to the loop test
TcpAcceptLoop ==
  /\ orch.tcp.pc = "test"
  /\ orch' = [orch EXCEPT !.tcp.pc =
                IF loop_flags(orch.tcp.running) THEN "test" ELSE "exited"]
  /\ UNCHANGED << stateVars, kinectVars, picamVars, mgrVars, conns, ctl,
                  last_req >>

\* ControlServer._accept_loop lines 70-83, the same loop
ControlAcceptLoop ==
  /\ orch.control.pc = "test"
  /\ orch' = [orch EXCEPT !.control.pc =
                IF loop_flags(orch.control.running) THEN "test"
                ELSE "exited"]
  /\ UNCHANGED << stateVars, kinectVars, picamVars, mgrVars, conns, ctl,
                  last_req >>

\* _handle_client line 104: client.recv(1024) returns b'' when the peer
\* closed, or raises socket.timeout after 30 s (line 89), which the outer
\* `except Exception` catches; either way the handler ends in client.close()
CtlRecvEnds(k) ==
  /\ ctl[k].pc = "open"
  /\ ctl' = [ctl EXCEPT ![k].pc = "closed"]
  /\ UNCHANGED << stateVars, kinectVars, picamVars, mgrVars, conns,
                  last_req, orch >>

(***************************************************************************)
(* Startup (__main__.py): the Kinect is probed, the streams are created    *)
(* with sources that are available, then the capture loop and the servers  *)
(* start.                                                                  *)
(***************************************************************************)
CreateStreams(order, src) ==
  /\ stream_order = order
  /\ streams = [s \in Range(order) |-> NewStream(src[s])]

\* The reader thread start() creates for a subprocess (line 101), before its
\* first loop test: the subprocess it is reading from and the image it has
\* extracted
NewReader ==
  [pc |-> "test", from |-> 0, preset |-> None, jpeg_data |-> NoFrame,
   reads |-> 0]

\* One reader thread per subprocess start() launches; and the bytes of one
\* subprocess's output: written so far, not yet read, the reader's buffer
\* and the images it published
InitReader ==
  [threads |-> [p \in 1..(MaxSpawns + 1) |-> NewReader],
   stream |-> << >>, pipe |-> << >>, buffer |-> << >>, images |-> << >>]

\* PiCameraCapture.__init__ of both instances; cmd says whether
\* _detect_camera_command found rpicam-vid or libcamera-vid on the host
InitPicamWith(cmd, rd) ==
  /\ picam = [inst |-> [i \in PiCams |-> NewPiCam(cmd)],
              hardware_lock |-> Free, active_instance |-> None,
              live |-> {}, next_pid |-> 1]
  /\ pcall = [t \in PThreads |-> NoCall]
  /\ reader = rd

InitPicam(cmd) == InitPicamWith(cmd, InitReader)

\* StreamManager.__init__: no start() or stop() is in progress, no stop()
\* has returned, and start() has created no thread after a stop()
NoManagerCall ==
  [pc |-> "idle", stops |-> 0, pid_at_stop |-> 0, later |-> << >>]

InitProgram(o) ==
  /\ running = TRUE
  /\ shut = [pc |-> "idle", todo |-> << >>]
  /\ mgr_running = FALSE
  /\ cl = InitLoop
  /\ cycle = 0
  /\ mcall = NoManagerCall
  /\ conns = [c \in Conns |-> NewConn]
  /\ ctl = [k \in CtlConns |-> [pc |-> "new", selected_stream |-> None]]
  /\ orch = o
  /\ last_req = [kind |-> None, conn |-> None, command |-> "",
                 source |-> "", stream |-> None, status |-> "",
                 failed |-> "none", parts |-> << >>, reply |-> << >>,
                 n |-> 0]

\* The program once run_forever has started the servers
InitCommon == InitProgram(ServingOrch)

\* config.py lines 74-84 and the startup probe of the Kinect (__main__.py
\* line 119): whether freenect imports, and whether the probe got a frame
InitKinect(freenect, ok) ==
  /\ FREENECT_AVAILABLE = freenect
  /\ LET kn == check_availability(
                 [available |-> FALSE, consecutive_failures |-> 0,
                  flag |-> freenect],
                 IF ok THEN "data" ELSE "none")
     IN  /\ kinect = [available |-> kn.available,
                      consecutive_failures |-> kn.consecutive_failures,
                      probe |-> "idle", probes |-> 0]
         /\ KINECT_AVAILABLE = kn.flag

(***************************************************************************)
(* Spec: the streaming path on a host without the freenect library, where  *)
(* __main__ gives both 'main' and 'secondary' the Pi camera.  The capture  *)
(* thread posts frames, the streaming connections consume them, and        *)
(* shutdown may be signalled at any time.                                  *)
(***************************************************************************)
StreamingOrder == <<"main", "secondary">>

Init ==
  /\ InitCommon
  /\ InitPicam(TRUE)
  /\ InitKinect(FALSE, FALSE)
  /\ CreateStreams(StreamingOrder,
                   [s \in Range(StreamingOrder) |-> "picam"])

CaptureLoop ==
  \/ ManagerStart
  \/ CycleBegin
  \/ PicamManage
  \/ CapturePicam
  \/ Distribute
  \/ CycleEnd
  \/ Cleanup
  \/ CameraPublish

Next ==
  \/ CaptureLoop
  \/ \E c \in Conns :
       \/ ConnOpen(c)
       \/ ConnLoop(c)
       \/ GetFrameTest(c)
       \/ WaitExpire(c)
       \/ WaitTimeout(c)
       \/ WaitWake(c)
       \/ ConnSend(c)
       \/ ConnFinally(c)
  \/ ShutdownBegin
  \/ ShutdownNotify

Spec == Init /\ [][Next]_vars

(***************************************************************************)
(* SpecPicam: two threads call start(preset) and stop() on two             *)
(* PiCameraCapture instances in any order and interleaving, on a host with *)
(* or without a camera command; the reader threads publish images and a    *)
(* camera process may end on its own.                                      *)
(***************************************************************************)
InitPicamSpec ==
  /\ InitCommon
  /\ \E cmd \in BOOLEAN : InitPicam(cmd)
  /\ InitKinect(FALSE, FALSE)
  /\ CreateStreams(StreamingOrder,
                   [s \in Range(StreamingOrder) |-> "picam"])

\* A thread that is in no call enters start(preset) or stop() on an instance
PicamCall(t) ==
  /\ pcall[t].pc \in {"idle", "done"}
  /\ \E op \in {"start", "stop"}, i \in PiCams, preset \in {"high", "low"} :
       /\ op = "stop" => preset = "high"
       /\ pcall' = [pcall EXCEPT ![t] = BeginCall(op, i, preset)]
  /\ UNCHANGED << picam, reader, stateVars, kinectVars, mgrVars, srvVars >>

PicamThread(t) ==
  /\ PicamStep(t)
  /\ UNCHANGED << reader, stateVars, kinectVars, mgrVars, srvVars >>

PicamReader(i) ==
  /\ ReaderPublish(i)
  /\ UNCHANGED << pcall, reader, stateVars, kinectVars, mgrVars, srvVars >>

PicamProcessExit ==
  /\ \E pid \in picam.live : ProcessExit(pid)
  /\ UNCHANGED << pcall, reader, stateVars, kinectVars, mgrVars, srvVars >>

NextPicam ==
  \/ \E t \in PThreads : PicamCall(t)
  \/ \E t \in PThreads : PicamThread(t)
  \/ \E i \in PiCams : PicamReader(i)
  \/ PicamProcessExit

SpecPicam == InitPicamSpec /\ [][NextPicam]_vars

\* C4: across the instances and every interleaving of start() and stop()
\* from different threads, at most one camera subprocess runs at any
\* instant, and a subprocess is spawned only when no other one runs: the
\* start() on B has terminated A's subprocess before it spawns B's.
C4_OneSubprocess ==
  /\ [](Cardinality(picam.live) <= 1)
  /\ [][picam'.next_pid # picam.next_pid =>
          /\ picam.live = {}
          /\ picam'.live = {picam.next_pid}]_vars

\* C4 happens: two threads have each returned True from a start() on a
\* different instance, two subprocesses were spawned and one of them runs
C4_Witness ==
  \E t, u \in PThreads :
    /\ pcall[t].pc = "done" /\ pcall[u].pc = "done"
    /\ pcall[t].op = "start" /\ pcall[u].op = "start"
    /\ pcall[t].result = "True" /\ pcall[u].result = "True"
    /\ pcall[t].inst # pcall[u].inst
    /\ picam.next_pid = 3
    /\ Cardinality(picam.live) = 1

(***************************************************************************)
(* SpecCapture: the capture loop over three streams, with a Kinect whose   *)
(* captures may fail.  The streams share sources as in                     *)
(* {A -> kinect_rgb, B -> kinect_rgb, C -> picam}, or select two Kinect    *)
(* modes; the startup scale is 1.0 or 0.5 for every stream; the startup    *)
(* probe of the Kinect succeeds or fails; shutdown ends the loop.          *)
(***************************************************************************)
CaptureOrder == <<"main", "secondary", "aux">>

CaptureConfigs ==
  { [main |-> "kinect_rgb", secondary |-> "kinect_rgb", aux |-> "picam"],
    [main |-> "kinect_rgb", secondary |-> "kinect_depth",
     aux |-> "kinect_rgb"] }

StartupScales == {DefaultScale, 50}

InitCapture ==
  /\ InitCommon
  /\ InitPicam(TRUE)
  /\ \E ok \in BOOLEAN : InitKinect(TRUE, ok)
  /\ stream_order = CaptureOrder
  /\ \E src \in CaptureConfigs, scale \in StartupScales :
       streams = [s \in Range(CaptureOrder) |->
                    update_settings(NewStream(src[s]),
                                    [scale_factor |-> scale])]

\* A caller probes the Kinect again while the capture loop runs
KinectProbe ==
  /\ ProbeBegin \/ ProbeWrite
  /\ UNCHANGED << stateVars, picamVars, mgrVars, srvVars >>

NextCapture ==
  \/ CaptureLoop
  \/ CaptureKinect
  \/ ShutdownBegin
  \/ ShutdownNotify

SpecCapture == InitCapture /\ [][NextCapture]_vars

\* The number of captures of source src in the current cycle
Captures(src) ==
  Cardinality({k \in 1..Len(cl.attempts) : cl.attempts[k] = src})

\* The capture loop is between two cycles, at least one cycle was run
CycleOver == cl.pc = "test" /\ cycle >= 1

KinectAttempt ==
  /\ cl.pc = "capture"
  /\ Len(cl'.attempts) = Len(cl.attempts) + 1
  /\ cl'.attempts[Len(cl'.attempts)] \in KINECT_SOURCES
  /\ is_available(KinectState)

\* The attempt of this step returned no frame
KinectAttemptFailed == cl'.pc = "capture" /\ cl'.idx = cl.idx + 1

\* C6 as stated: every failed capture increments the consecutive-failure
\* counter, every successful capture resets it to 0, availability flips to
\* false exactly when the counter reaches 5, and the counter never exceeds 5.
C6_FailureThreshold ==
  /\ [](kinect.consecutive_failures <= max_failures)
  /\ [][KinectAttempt =>
          /\ IF KinectAttemptFailed
             THEN kinect'.consecutive_failures =
                     kinect.consecutive_failures + 1
             ELSE kinect'.consecutive_failures = 0
          /\ ~kinect'.available <=>
                kinect'.consecutive_failures = max_failures]_vars

(***************************************************************************)
(* manager.py switch_source, servers/http_server.py handle_switch and      *)
(* servers/control_server.py _handle_client: the requests that change a    *)
(* stream's source and settings.  Parameter values arrive as text.         *)
(***************************************************************************)
\* int(text): the numerals used as inputs, and text that is no number
IntOf == [t \in {"50", "85", "500", "0"} |->
            IF t = "50" THEN 50 ELSE IF t = "85" THEN 85
            ELSE IF t = "500" THEN 500 ELSE 0]

\* float(text), in hundredths
FloatOf == [t \in {"0.5", "3.0", "50"} |->
              IF t = "0.5" THEN 50 ELSE IF t = "3.0" THEN 300 ELSE 5000]

\* A switch_source that does not look at the available sources
switch_source_unchecked(sts, stream_id, source) ==
  IF stream_id \notin DOMAIN sts
  THEN [success |-> FALSE, streams |-> sts]
  ELSE [success |-> TRUE,
        streams |-> [sts EXCEPT ![stream_id] = set_source(@, source)]]

\* StreamManager.switch_source on the stream table sts
switch_source(sts, stream_id, source) ==
  IF stream_id \notin DOMAIN sts
  THEN [success |-> FALSE, streams |-> sts]
  ELSE IF source \notin get_available_sources
  THEN [success |-> FALSE, streams |-> sts]
  ELSE [success |-> TRUE,
        streams |-> [sts EXCEPT ![stream_id] = set_source(@, source)]]

\* The handler so far: the stream table, the response status ("" while the
\* handler goes on), the field that failed, and response_parts
Handling(sts) ==
  [streams |-> sts, status |-> "", failed |-> "none", parts |-> << >>]

Fail(r, status, field) == [r EXCEPT !.status = status, !.failed = field]

\* handle_switch lines 162-170
switch_field_source(r, sid, source) ==
  IF r.status # "" \/ source = "" THEN r
  ELSE LET sw == switch_source(r.streams, sid, source) IN
       IF sw.success
       THEN [r EXCEPT !.streams = sw.streams, !.parts = Append(@, "source")]
       ELSE Fail(r, "400", "source")

\* A quality field that is stored before it is validated
quality_stored_then_checked(r, sid, quality) ==
  IF r.status # "" \/ quality = "" THEN r
  ELSE IF quality \notin DOMAIN IntOf THEN Fail(r, "400", "quality")
  ELSE Fail([r EXCEPT !.streams[sid] =
                 update_settings(@, [jpeg_quality |-> IntOf[quality]])],
            "400", "quality")

\* handle_switch lines 173-186
switch_field_quality(r, sid, quality) ==
  IF r.status # "" \/ quality = "" THEN r
  ELSE IF quality \notin DOMAIN IntOf THEN Fail(r, "400", "quality")
  ELSE IF MinQuality <= IntOf[quality] /\ IntOf[quality] <= MaxQuality
  THEN [r EXCEPT !.streams[sid] =
                    update_settings(@, [jpeg_quality |-> IntOf[quality]]),
                 !.parts = Append(@, "quality")]
  ELSE Fail(r, "400", "quality")

\* handle_switch lines 189-202
switch_field_scale(r, sid, scale) ==
  IF r.status # "" \/ scale = "" THEN r
  ELSE IF scale \notin DOMAIN FloatOf THEN Fail(r, "400", "scale")
  ELSE IF MinScale <= FloatOf[scale] /\ FloatOf[scale] <= MaxScale
  THEN [r EXCEPT !.streams[sid] =
                    update_settings(@, [scale_factor |-> FloatOf[scale]]),
                 !.parts = Append(@, "scale")]
  ELSE Fail(r, "400", "scale")

\* handle_switch lines 205-214
switch_field_picam_res(r, sid, picam_res) ==
  IF r.status # "" \/ picam_res = "" THEN r
  ELSE IF picam_res \in PICAM_PRESETS
  THEN [r EXCEPT !.streams[sid] =
                    update_settings(@, [picam_preset |-> picam_res]),
                 !.parts = Append(@, "picam_res")]
  ELSE Fail(r, "400", "picam_res")

\* handle_switch lines 216-223
switch_response(r) ==
  IF r.status # "" THEN r
  ELSE IF r.parts # << >> THEN [r EXCEPT !.status = "200"]
  ELSE Fail(r, "400", "none")

\* A handler that takes the scale field before the quality field
handle_switch_scale_first(sts, server_id, q) ==
  IF ~q.has_query THEN Fail(Handling(sts), "400", "none")
  ELSE LET sid == IF q.stream = "" THEN server_id ELSE q.stream IN
       IF sid \notin DOMAIN sts THEN Fail(Handling(sts), "404", "stream")
       ELSE switch_response(
              switch_field_picam_res(
                switch_field_quality(
                  switch_field_scale(
                    switch_field_source(Handling(sts), sid, q.source),
                    sid, q.scale),
                  sid, q.quality),
                sid, q.picam_res))

\* MJPEGStreamHandler.handle_switch on the server of stream server_id;
\* q is the parsed query, or has no '?'
handle_switch(sts, server_id, q) ==
  IF ~q.has_query THEN Fail(Handling(sts), "400", "none")
  ELSE LET sid == IF q.stream = "" THEN server_id ELSE q.stream IN
       IF sid \notin DOMAIN sts THEN Fail(Handling(sts), "404", "stream")
       ELSE switch_response(
              switch_field_picam_res(
                switch_field_scale(
                  switch_field_quality(
                    switch_field_source(Handling(sts), sid, q.source),
                    sid, q.quality),
                  sid, q.scale),
                sid, q.picam_res))

\* The queries sent to /switch
Queries ==
  [has_query : {TRUE}, stream : {"", "secondary"},
   source : {"", "picam", "kinect_rgb", "webcam"},
   quality : {"", "50", "500"},
   scale : {"", "0.5", "3.0"},
   picam_res : {"", "low", "4k"}]
  \cup
  [has_query : BOOLEAN, stream : {"", "aux"}, source : {""},
   quality : {"", "abc"}, scale : {""}, picam_res : {""}]

\* One GET or POST /switch on the HTTP server of 'main', with a query of Q
HttpSwitchOf(Q) ==
  \E q \in Q :
    LET r == handle_switch(streams, "main", q) IN
    /\ last_req.n < MaxRequests
    /\ streams' = r.streams
    /\ last_req' = [kind |-> "http", conn |-> None, command |-> "switch",
                    source |-> q.source,
                    stream |-> IF q.stream = "" THEN "main" ELSE q.stream,
                    status |-> r.status, failed |-> r.failed,
                    parts |-> r.parts, reply |-> <<r.status>>,
                    n |-> last_req.n + 1]
    /\ UNCHANGED << stream_order, running, shut, kinectVars, picamVars,
                    mgrVars, conns, ctl, orch >>

HttpSwitch == HttpSwitchOf(Queries)

\* _handle_client lines 96-101: what is sent to a new connection, one
\* element per line and one for the prompt
Banner ==
  <<"Video Multiplexer Control Server v2.0", "Streams", "Selected",
    "Available sources", "Type 'help' for commands.", "> ">>

\* _handle_client lines 89-101: the welcome banner; the cursor starts at the
\* first stream
CtlConnect(k) ==
  /\ ctl[k].pc = "new"
  /\ ctl' = [ctl EXCEPT ![k] =
               [pc |-> IF loop_flags(orch.control.running) THEN "open"
                       ELSE "closed",
                selected_stream |-> IF stream_order # << >>
                                    THEN stream_order[1] ELSE "main"]]
  /\ last_req' = [kind |-> "ctl", conn |-> k, command |-> "connect",
                  source |-> "", stream |-> None, status |-> "Banner",
                  failed |-> "none", parts |-> << >>, reply |-> Banner,
                  n |-> last_req.n]
  /\ UNCHANGED << stateVars, kinectVars, picamVars, mgrVars, conns, orch >>

\* The command lines sent on a control connection: command and argument
Commands ==
  ({"select"} \X {"", "main", "secondary", "aux"})
  \cup ({"picam", "kinect_rgb", "kinect_ir"} \X {""})
  \cup ({"quality"} \X {"", "50", "85", "500", "abc"})
  \cup ({"scale"} \X {"", "0.5", "3.0", "abc"})
  \cup ({"picam_res"} \X {"", "low", "4k"})
  \cup ({"status", "help", "quit", "reboot", "streams", ""} \X {""})
  \cup ({"status"} \X {"all"})

\* _handle_client lines 137-202: the commands that write a stream, on the
\* selected stream sel; other commands write nothing
ctl_command(sts, sel, command, arg) ==
  LET r == Handling(sts) IN
  IF command \in get_available_sources
  THEN LET sw == switch_source(sts, sel, command) IN
       IF sw.success
       THEN [r EXCEPT !.streams = sw.streams, !.status = "OK"]
       ELSE Fail(r, "ERROR", "source")
  ELSE IF command \in KINECT_SOURCES THEN Fail(r, "ERROR", "source")
  ELSE IF command \in {"quality", "scale", "picam_res"}
  THEN IF sel \notin DOMAIN sts THEN Fail(r, "ERROR", "stream")
       ELSE IF arg = "" THEN [r EXCEPT !.status = "Current"]
       ELSE IF command = "quality"
       THEN LET h == switch_field_quality(r, sel, arg) IN
            IF h.failed = "none" THEN [h EXCEPT !.status = "OK"]
            ELSE Fail(r, "ERROR", "quality")
       ELSE IF command = "scale"
       THEN LET h == switch_field_scale(r, sel, arg) IN
            IF h.failed = "none" THEN [h EXCEPT !.status = "OK"]
            ELSE Fail(r, "ERROR", "scale")
       ELSE LET h == switch_field_picam_res(r, sel, arg) IN
            IF h.failed = "none" THEN [h EXCEPT !.status = "OK"]
            ELSE Fail(r, "ERROR", "picam_res")
  ELSE [r EXCEPT !.status = "Other"]

\* A handler that leaves its loop after any command line
leaves_loop_always(command) == TRUE

\* _handle_client lines 269-271: the commands after which the handler
\* leaves its loop and closes the connection
is_quit(command) == command \in {"quit", "exit", "q"}

\* A reply that never carries the prompt
ctl_reply_bare(command, arg, status) ==
  IF command = "" THEN << >> ELSE <<status>>

\* _handle_client lines 115-274: what is sent in reply to a command line
\* that was answered with status, one element per line and one for the
\* prompt "> "
ctl_reply(command, arg, status) ==
  IF command = "" THEN <<"> ">>
  ELSE IF command = "streams"
  THEN <<"Available streams", "Currently selected", "> ">>
  ELSE IF command \in {"quit", "exit", "q"} THEN <<"Goodbye!">>
  ELSE IF status \in {"OK", "ERROR", "Current"} THEN <<status, "> ">>
  ELSE IF command = "status"
  THEN IF arg = "all"
       THEN <<"Kinect", "Sources", "", "streams", "> ">>
       ELSE <<"Stream", "Source", "Resolution", "JPEG Quality",
              "Scale Factor", "Pi Cam Preset", "Frames", "Clients", "> ">>
  ELSE IF command = "help" THEN <<"help", "> ">>
  ELSE <<"Unknown command", "> ">>

\* A cursor that the connections share: the one of the first connection
CursorOfFirst(c, k) == c["ctl1"].selected_stream

\* _handle_client lines 94 and 129: selected_stream is a local variable of
\* the handler thread of connection k
SelectedStream(c, k) == c[k].selected_stream

\* _handle_client line 103: the loop test that follows a command
AfterCommand ==
  IF loop_flags(orch.control.running) THEN "open" ELSE "closed"

\* _handle_client lines 103-274: one command line, drawn from Cmds, on
\* connection k
CtlCommandOf(k, Cmds) ==
  /\ ctl[k].pc = "open"
  /\ last_req.n < MaxRequests
  /\ \E cmd \in Cmds :
       LET command == cmd[1]
           arg == cmd[2]
           sel == SelectedStream(ctl, k)
       IN
       IF command = "select"
       THEN /\ streams' = streams
            /\ ctl' = [ctl EXCEPT
                        ![k].selected_stream =
                           IF arg # "" /\ get_stream(arg) # None
                           THEN arg ELSE @,
                        ![k].pc = AfterCommand]
            /\ last_req' = [kind |-> "ctl", conn |-> k, command |-> command,
                            source |-> IF command \in Range(ALL_SOURCES)
                                       THEN command ELSE "",
                            stream |-> sel,
                            status |-> IF arg = "" THEN "Current"
                                       ELSE IF get_stream(arg) # None
                                       THEN "OK" ELSE "ERROR",
                            failed |-> IF arg # "" /\ get_stream(arg) = None
                                       THEN "stream" ELSE "none",
                            parts |-> << >>,
                            reply |-> ctl_reply(command, arg,
                                         IF arg = "" THEN "Current"
                                         ELSE IF get_stream(arg) # None
                                         THEN "OK" ELSE "ERROR"),
                            n |-> last_req.n + 1]
       ELSE IF is_quit(command)
       THEN /\ streams' = streams
            /\ ctl' = [ctl EXCEPT ![k].pc = "closed"]
            /\ last_req' = [kind |-> "ctl", conn |-> k, command |-> command,
                            source |-> IF command \in Range(ALL_SOURCES)
                                       THEN command ELSE "",
                            stream |-> sel,
                            status |-> "Goodbye", failed |-> "none",
                            parts |-> << >>,
                            reply |-> ctl_reply(command, arg, "Goodbye"),
                            n |-> last_req.n + 1]
       ELSE LET r == ctl_command(streams, sel, command, arg) IN
            /\ streams' = r.streams
            /\ ctl' = [ctl EXCEPT ![k].pc = AfterCommand]
            /\ last_req' = [kind |-> "ctl", conn |-> k, command |-> command,
                            source |-> IF command \in Range(ALL_SOURCES)
                                       THEN command ELSE "",
                            stream |-> sel,
                            status |-> r.status, failed |-> r.failed,
                            parts |-> r.parts,
                            reply |-> ctl_reply(command, arg, r.status),
                            n |-> last_req.n + 1]
  /\ UNCHANGED << stream_order, running, shut, kinectVars, picamVars,
                  mgrVars, conns, orch >>

CtlCommand(k) == CtlCommandOf(k, Commands)

(***************************************************************************)
(* SpecRequests: the HTTP /switch requests and the control connections,    *)
(* on the two streams of the default startup, with the Kinect available    *)
(* or not.                                                                 *)
(***************************************************************************)
InitRequests ==
  /\ InitCommon
  /\ InitPicam(TRUE)
  /\ \E ok \in BOOLEAN :
       /\ InitKinect(TRUE, ok)
       /\ CreateStreams(StreamingOrder,
                        [s \in Range(StreamingOrder) |->
                           IF s = "main" /\ ok THEN "kinect_rgb"
                           ELSE "picam"])

\* The control connections that are opened in SpecRequests
RequestConns == {"ctl1"}

NextRequests ==
  \/ HttpSwitch
  \/ \E k \in RequestConns : CtlConnect(k)
  \/ \E k \in RequestConns : CtlCommand(k)

SpecRequests == InitRequests /\ [][NextRequests]_vars

\* A step that is a request answered with an error
Rejected ==
  /\ last_req'.n # last_req.n
  /\ last_req'.status \in {"400", "404", "ERROR"}

\* The settings fields in the order handle_switch processes them
FieldOrder == <<"source", "quality", "scale", "picam_res">>

\* Field f of the stream records a and b is the same
SameField(a, b, f) ==
  IF f = "source"
  THEN /\ a.current_source = b.current_source
       /\ a.stats.source_switches = b.stats.source_switches
  ELSE IF f = "quality" THEN a.jpeg_quality = b.jpeg_quality
  ELSE IF f = "scale" THEN a.scale_factor = b.scale_factor
  ELSE a.picam_preset = b.picam_preset

\* C7 as stated: a request rejected with an error (an ERROR reply on the
\* control protocol, an HTTP 400 or 404 from /switch) leaves the source,
\* settings and counters of every stream as they were.
C7_RejectedChangesNothing ==
  [][Rejected => streams' = streams]_vars

\* C7, amended: a rejected request leaves every stream other than its
\* target unchanged and writes neither frames nor frame counters; an ERROR
\* reply of the control protocol and an HTTP 404 leave every stream
\* unchanged; an HTTP 400 from /switch leaves the field that failed and the
\* fields after it (in the order source, quality, scale, picam_res)
\* unchanged on the target, the valid fields before it having been applied.
C7_RejectedKeepsLaterFields ==
  [][Rejected =>
       LET sid == last_req'.stream IN
       /\ \A s \in Created : s # sid => streams'[s] = streams[s]
       /\ (last_req'.kind = "ctl" \/ last_req'.status = "404"
             \/ last_req'.failed = "none") => streams' = streams
       /\ sid \in Created =>
            /\ streams'[sid].frame = streams[sid].frame
            /\ streams'[sid].frame_id = streams[sid].frame_id
            /\ streams'[sid].stats.frames_captured =
                 streams[sid].stats.frames_captured
            /\ streams'[sid].stats.clients_connected =
                 streams[sid].stats.clients_connected
            /\ \A i, j \in 1..Len(FieldOrder) :
                 (FieldOrder[i] = last_req'.failed /\ j >= i) =>
                    SameField(streams'[sid], streams[sid], FieldOrder[j])]_vars

\* C7 happens: /switch answered 400 for its quality field after it had
\* applied the source field of the same request
C7_Witness ==
  /\ last_req.kind = "http"
  /\ last_req.status = "400"
  /\ last_req.failed = "quality"
  /\ last_req.parts = <<"source">>
  /\ streams[last_req.stream].stats.source_switches >= 1

(***************************************************************************)
(* SpecStream: the operations of StreamState called in any order on the    *)
(* streams of the default startup - set_frame by a producer, get_frame and *)
(* the client counters by a streaming connection, set_source and           *)
(* update_settings by a caller - together with GlobalState.shutdown.       *)
(***************************************************************************)
InitStream ==
  /\ InitCommon
  /\ InitPicam(TRUE)
  /\ InitKinect(TRUE, TRUE)
  /\ CreateStreams(StreamingOrder,
                   [s \in Range(StreamingOrder) |->
                      IF s = "main" THEN "kinect_rgb" ELSE "picam"])

\* stream.set_frame(jpeg_bytes) with the bytes of a new capture
PostFrame(s) ==
  /\ s \in Created
  /\ streams[s].lock = Free
  /\ streams[s].frame_id < MaxCycles
  /\ streams' = [streams EXCEPT ![s] =
       set_frame(@, [src |-> streams[s].current_source,
                     n |-> streams[s].frame_id + 1])]
  /\ conns' = notify_all(conns, s, "frame")
  /\ UNCHANGED << stream_order, running, shut, kinectVars, picamVars,
                  mgrVars, ctl, last_req, orch >>

\* stream.set_source(source)
CallSetSource(s) ==
  /\ s \in Created
  /\ streams[s].lock = Free
  /\ streams[s].stats.source_switches < MaxRequests
  /\ \E source \in {"picam", "kinect_rgb"} :
       streams' = [streams EXCEPT ![s] = set_source(@, source)]
  /\ UNCHANGED << stream_order, running, shut, kinectVars, picamVars,
                  mgrVars, srvVars >>

\* stream.update_settings(**kwargs), the keyword arguments drawn from Kws
CallUpdateSettingsOf(s, Kws) ==
  /\ s \in Created
  /\ streams[s].lock = Free
  /\ \E kw \in Kws :
       streams' = [streams EXCEPT ![s] = update_settings(@, kw)]
  /\ UNCHANGED << stream_order, running, shut, kinectVars, picamVars,
                  mgrVars, srvVars >>

CallUpdateSettings(s) ==
  CallUpdateSettingsOf(s,
    {[jpeg_quality |-> 500], [scale_factor |-> 10],
     [picam_preset |-> "low"],
     [jpeg_quality |-> JPEG_QUALITY, scale_factor |-> DefaultScale,
      picam_preset |-> DEFAULT_PICAM_PRESET]})

\* The streaming connection of SpecStream
StreamConns == {"http1"}

NextStream ==
  \/ \E s \in {"main", "secondary"} : PostFrame(s)
  \/ CallSetSource("main")
  \/ CallUpdateSettings("main")
  \/ \E c \in StreamConns :
       \/ ConnOpen(c)
       \/ ConnLoop(c)
       \/ GetFrameTest(c)
       \/ WaitExpire(c)
       \/ WaitTimeout(c)
       \/ WaitWake(c)
       \/ ConnSend(c)
       \/ ConnFinally(c)
  \/ ShutdownBegin
  \/ ShutdownNotify

SpecStream == InitStream /\ [][NextStream]_vars

\* C9: a stream's frame_sequence grows by exactly one on every set_frame
\* and is changed by no other operation (get_frame, set_source,
\* update_settings, the client counters, shutdown); frames_captured equals
\* frame_sequence in every reachable state.
C9_SequenceCountsSetFrames ==
  /\ [](\A s \in Created :
          streams[s].stats.frames_captured = streams[s].frame_id)
  /\ [][\A s \in Created :
          /\ PostFrame(s) =>
               streams'[s].frame_id = streams[s].frame_id + 1
          /\ streams'[s].frame_id # streams[s].frame_id => PostFrame(s)]_vars

\* C9 happens: 'main' has had two set_frame calls, a source switch, a
\* settings update, a consumer that connected and was sent a frame, and a
\* shutdown broadcast
C9_Witness ==
  /\ streams["main"].frame_id = 2
  /\ streams["main"].stats.source_switches >= 1
  /\ streams["main"].jpeg_quality = MaxQuality
  /\ streams["main"].stats.frames_sent >= 1
  /\ streams["main"].stats.clients_connected >= 1
  /\ shut.pc = "done"

(***************************************************************************)
(* Properties of the streaming path (Spec).                                *)
(***************************************************************************)
\* A step in which connection c's get_frame call returns
GetFrameReturns(c) ==
  /\ conns[c].pc \in {"gf_test", "expired"}
  /\ conns'[c].pc \in {"loop", "sending"}

\* A step in which connection c's get_frame call returns a frame
FrameReturned(c) ==
  /\ conns[c].pc = "gf_test"
  /\ conns'[c].pc = "sending"

\* C1: for a consumer that chains get_frame calls from last_sequence 0, the
\* sequence it holds never decreases, and every call that returns a frame
\* returns a sequence strictly greater than the one it was given, so no
\* frame is delivered twice to the same consumer.
C1_SequencesIncrease ==
  [][\A c \in Conns :
       /\ conns'[c].last_frame_id >= conns[c].last_frame_id
       /\ FrameReturned(c) =>
            conns'[c].last_frame_id > conns[c].last_frame_id]_vars

\* C1 happens: a consumer that already sent a frame is sending a later one
C1_Witness ==
  \E c \in Conns :
    /\ conns[c].pc = "sending"
    /\ conns[c].last_frame_id >= 2
    /\ streams[conns[c].stream].stats.frames_sent >= 1

\* C2 as stated: a consumer that stays connected observes every posted
\* frame, so a call made with the sequence n >= 1 of a frame it observed
\* returns the frame n + 1 and skips none.
C2_NoFrameSkipped ==
  [][\A c \in Conns :
       (FrameReturned(c) /\ conns[c].last_frame_id >= 1) =>
          conns'[c].last_frame_id = conns[c].last_frame_id + 1]_vars

\* C2, amended: a frame-returning call delivers the stream's latest frame
\* with the stream's current sequence, which is greater than the sequence the
\* consumer held; each posted frame is therefore observed at most once and
\* in increasing order, and the frames posted between two calls of a
\* consumer, other than the latest, are not observed by it.
C2_LatestFrameAtMostOnce ==
  [][\A c \in Conns :
       FrameReturned(c) =>
         /\ conns'[c].last_frame_id = streams[conns[c].stream].frame_id
         /\ conns'[c].frame = streams[conns[c].stream].frame
         /\ conns'[c].last_frame_id > conns[c].last_frame_id]_vars

\* C2 happens: the only consumer that ever connected has sent one frame of
\* its stream and is now sending the frame of sequence 3, so one of the
\* frames 1 and 2 was posted and never observed by it
C2_Witness ==
  /\ conns["http1"].pc = "new"
  /\ conns["tcp1"].pc = "sending"
  /\ conns["tcp1"].last_frame_id = 3
  /\ streams["secondary"].stats.frames_sent = 1

\* C3 as stated: a consumer blocked in get_frame that the shutdown
\* broadcast wakes returns from the call; it is never blocked in the wait
\* again with the broadcast already behind it.
C3_ShutdownBroadcastReturns ==
  \A c \in Conns :
    conns[c].woke_by = "shutdown" => conns[c].pc # "waiting"

\* C8: no consumer holds a stream's mutex while it waits on the condition,
\* has been notified, or does network I/O: whoever holds it is a consumer
\* inside get_frame's test, which releases it in its next step without
\* waiting for anything; so set_frame waits for no consumer's wait or send.
C8_NoLockWhileBlocked ==
  \A s \in Created :
    LET h == streams[s].lock IN
    h \in Conns =>
      /\ conns[h].pc = "gf_test"
      /\ conns[h].stream = s
      /\ ENABLED GetFrameTest(h)

\* C8 happens: the capture loop is about to set_frame on a stream that has
\* one consumer waiting on its condition and one doing network I/O, and the
\* stream's mutex is free
C8_Witness ==
  /\ cl.pc = "distribute"
  /\ streams[Head(cl.todo)].lock = Free
  /\ \E c, d \in Conns :
       /\ conns[c].pc = "waiting"
       /\ conns[c].stream = Head(cl.todo)
       /\ conns[d].pc = "sending"
       /\ conns[d].stream = Head(cl.todo)

\* A step in which the timeout of connection c's wait elapses
TimeoutElapses(c) ==
  /\ conns[c].pc = "waiting"
  /\ conns'[c].pc = "expired"

\* C10: the timeout of a wait elapses only while the stream's sequence
\* still equals last_sequence, and the call then returns
\* (none, last_sequence), as does a call that finds its deadline passed with
\* the sequence unchanged; every other call returns the stream's latest
\* frame, which is not null, with the stream's current sequence.  A null
\* frame never comes with a sequence other than last_sequence.
C10_GetFrameResult ==
  [][\A c \in Conns :
       /\ TimeoutElapses(c) =>
            streams[conns[c].stream].frame_id = conns[c].last_frame_id
       /\ GetFrameReturns(c) =>
         LET st == streams[conns[c].stream] IN
         IF conns[c].pc = "expired" \/ st.frame_id = conns[c].last_frame_id
         THEN /\ conns'[c].frame = NoFrame
              /\ conns'[c].last_frame_id = conns[c].last_frame_id
              /\ conns'[c].pc = "loop"
         ELSE /\ conns'[c].frame = st.frame
              /\ conns'[c].frame # NoFrame
              /\ conns'[c].last_frame_id = st.frame_id
              /\ conns'[c].pc = "sending"]_vars

\* C10 happens: a capture that returned nothing left the stream's sequence
\* alone, a consumer timed out on it, and a later call of that consumer
\* returned the first frame
C10_Witness ==
  \E c \in Conns :
    /\ conns[c].pc = "sending"
    /\ conns[c].frame = streams[conns[c].stream].frame
    /\ conns[c].last_frame_id = 1
    /\ cycle >= 2
    /\ cl.start_ids[conns[c].stream] = 0

(***************************************************************************)
(* Properties of PiCameraCapture.start (SpecPicam).                        *)
(***************************************************************************)
\* Thread t is at start()'s test of the running process (line 73), holding
\* both locks, on an instance that runs a subprocess
StartOnRunning(t) ==
  /\ pcall[t].op = "start"
  /\ pcall[t].pc = "check"
  /\ pcall'[t].pc # "check"
  /\ picam.inst[pcall[t].inst].process # 0

\* Thread t's start() leaves the Popen try block (lines 84-110)
StartLaunches(t) ==
  /\ pcall[t].pc = "popen"
  /\ pcall'[t].pc = "release"

\* start() with the preset that runs is a no-op; with another preset the
\* running subprocess is torn down and nothing is spawned in that step
StartTestsPreset(t) ==
  LET i == pcall[t].inst IN
  StartOnRunning(t) =>
    IF picam.inst[i].current_preset = pcall[t].preset
    THEN /\ picam' = picam
         /\ pcall'[t].result = "True"
    ELSE /\ picam.inst[i].process \notin picam'.live
         /\ picam'.inst[i].process = 0
         /\ picam'.next_pid = picam.next_pid
         /\ pcall'[t].pc = "popen"

\* Exactly one subprocess runs, launched by thread t's start(), with the
\* preset of the call
OneRunsWithPreset(t) ==
  LET i == pcall[t].inst IN
  /\ picam'.next_pid = picam.next_pid + 1
  /\ picam'.live = {picam.next_pid}
  /\ picam'.inst[i].process = picam.next_pid
  /\ picam'.inst[i].current_preset = pcall[t].preset
  /\ picam'.active_instance = i

\* C11 as stated: start() with the running preset is a no-op that spawns
\* nothing; start() with another preset tears the running subprocess down
\* before the launch, and after the launch exactly one subprocess runs,
\* with the new preset.
C11_RestartRunsOne ==
  [][\A t \in PThreads :
       /\ StartTestsPreset(t)
       /\ (StartLaunches(t) /\ pcall[t].torn_down) =>
            (picam.live = {} /\ OneRunsWithPreset(t))]_vars

\* C11, amended: start() with the running preset is a no-op that spawns
\* nothing and returns True; start() with another preset tears the running
\* subprocess down before the launch; when the launch succeeds start()
\* returns True and exactly one subprocess runs, with the new preset; when
\* the launch fails start() returns False and no subprocess runs (the old
\* one is not restored).
C11_RestartRunsOneIfLaunched ==
  [][\A t \in PThreads :
       /\ StartTestsPreset(t)
       /\ StartLaunches(t) =>
            /\ picam.live = {}
            /\ IF pcall'[t].result = "True"
               THEN OneRunsWithPreset(t)
               ELSE /\ pcall'[t].result = "False"
                    /\ picam' = picam
                    /\ picam.inst[pcall[t].inst].process = 0]_vars

\* C11 happens: on one instance a start('high') and a start('low') both
\* returned True, two subprocesses were spawned in all, and only the second
\* one runs, with the preset of the later call
C11_Witness ==
  \E t, u \in PThreads :
    /\ t # u
    /\ pcall[t].pc = "done" /\ pcall[u].pc = "done"
    /\ pcall[t].op = "start" /\ pcall[u].op = "start"
    /\ pcall[t].result = "True" /\ pcall[u].result = "True"
    /\ pcall[t].inst = pcall[u].inst
    /\ pcall[t].preset = "high" /\ pcall[u].preset = "low"
    /\ picam.next_pid = 3
    /\ picam.live = {2}
    /\ picam.inst[pcall[u].inst].process = 2
    /\ picam.inst[pcall[u].inst].current_preset = "low"

(***************************************************************************)
(* SpecProbe: the capture loop of SpecCapture, and a caller that probes    *)
(* the Kinect again (check_availability) while the loop runs.              *)
(***************************************************************************)
NextProbe ==
  \/ NextCapture
  \/ KinectProbe

SpecProbe == InitCapture /\ [][NextProbe]_vars

\* A step of the capture loop that is one KinectCapture.get_frame
KinectGetFrame ==
  /\ cl.pc = "capture"
  /\ Len(cl'.attempts) = Len(cl.attempts) + 1
  /\ cl'.attempts[Len(cl'.attempts)] \in KINECT_SOURCES

\* C12: while the Kinect is unavailable a get_frame returns no frame and
\* leaves availability, the config flag and the failure counter as they
\* are; availability becomes true only in the statement of a
\* check_availability whose sensor read returned data, and that call ends
\* by resetting the failure counter to 0.
C12_UnavailableUntilProbe ==
  [][/\ (KinectGetFrame /\ ~kinect.available) =>
          /\ kinect' = kinect
          /\ KINECT_AVAILABLE' = KINECT_AVAILABLE
          /\ KinectAttemptFailed
     /\ (~kinect.available /\ kinect'.available) =>
          /\ kinect.probe = "74"
          /\ kinect'.probe = "75"
     /\ (~KINECT_AVAILABLE /\ KINECT_AVAILABLE') =>
          /\ kinect.probe = "75"
          /\ kinect'.probe = "76"
     /\ (kinect.probe = "76" /\ kinect'.probe = "idle") =>
          kinect'.consecutive_failures = 0]_vars

\* C12 happens: five failed captures in a row had flipped availability,
\* and a check_availability that read a frame has made the Kinect available
\* again and is about to reset the counter
C12_Witness ==
  /\ kinect.probe = "76"
  /\ kinect.available
  /\ KINECT_AVAILABLE
  /\ kinect.consecutive_failures = max_failures

(***************************************************************************)
(* SpecLifecycle: the capture loop over the two streams of the default     *)
(* startup, both on the Pi camera at first, while /switch requests change  *)
(* their sources and Pi camera presets.                                    *)
(***************************************************************************)
InitLifecycle ==
  /\ InitCommon
  /\ InitPicam(TRUE)
  /\ \E ok \in BOOLEAN : InitKinect(TRUE, ok)
  /\ CreateStreams(StreamingOrder,
                   [s \in Range(StreamingOrder) |-> "picam"])

\* The /switch queries sent while the capture loop runs
LoopQueries ==
  [has_query : {TRUE}, stream : {"", "secondary"},
   source : {"", "picam", "kinect_rgb"},
   quality : {""}, scale : {""},
   picam_res : {"", "low"}]

LoopSwitch == HttpSwitchOf(LoopQueries)

\* The camera subprocess of the shared instance ends on its own
CameraExit ==
  /\ picam.inst["shared"].process # 0
  /\ ProcessExit(picam.inst["shared"].process)
  /\ UNCHANGED << stateVars, kinectVars, pcall, reader, mgrVars, srvVars >>

NextLifecycle ==
  \/ NextCapture
  \/ LoopSwitch
  \/ CameraExit

SpecLifecycle == InitLifecycle /\ [][NextLifecycle]_vars

(***************************************************************************)
(* Properties of the capture loop with a failing Kinect (SpecCapture).     *)
(***************************************************************************)
\* A step in which Kinect availability flips to false
KinectFlips == kinect.available /\ ~kinect'.available

\* The streams of the Kinect partitions of the current cycle
KinectStreams ==
  {s \in Created :
     \E k \in 1..Len(cl.source_to_streams) :
       /\ cl.source_to_streams[k].source \in KINECT_SOURCES
       /\ s \in Range(cl.source_to_streams[k].streams)}

\* C13: the step that flips Kinect availability to false changes no
\* stream (its current_source, frame and sequence stay as they are); a
\* capture attempted while the Kinect is unavailable serves no stream; and
\* in a cycle that began with the Kinect unavailable the streams selecting a
\* Kinect mode received no set_frame, their sequence is where it was.
C13_FlipKeepsSelections ==
  /\ [](CycleOver /\ ~cl.kinect_at_start =>
          \A s \in KinectStreams :
            /\ streams[s].current_source \in KINECT_SOURCES
            /\ cl.pushed[s] = NoFrame
            /\ streams[s].frame_id = cl.start_ids[s])
  /\ [][/\ KinectFlips => streams' = streams
        /\ (KinectGetFrame /\ ~kinect.available) =>
             (streams' = streams /\ KinectAttemptFailed)]_vars

\* C13 happens: five failures in a row have flipped availability, and the
\* cycle of two Kinect modes in which that happened has ended with every
\* stream still selecting its Kinect mode and none of them served
C13_Witness ==
  /\ CycleOver
  /\ ~kinect.available
  /\ ~KINECT_AVAILABLE
  /\ kinect.consecutive_failures = max_failures
  /\ Len(cl.attempts) = 2
  /\ ~cl.raised
  /\ \A s \in Created :
       /\ streams[s].current_source \in KINECT_SOURCES
       /\ cl.pushed[s] = NoFrame
       /\ streams[s].frame_id = cl.start_ids[s]

(***************************************************************************)
(* Properties of the Pi camera lifecycle in the capture loop               *)
(* (SpecLifecycle).                                                        *)
(***************************************************************************)
\* The shared camera runs a subprocess with this preset
CameraRuns(preset) ==
  /\ picam.inst["shared"].process \in picam.live
  /\ picam.inst["shared"].current_preset = preset

\* C14 as stated: after every completed cycle, if a stream of the cycle
\* selected picam the Pi camera runs with the preset the loop read from the
\* first such stream, and otherwise the Pi camera is stopped; the camera is
\* launched only when the loop found it not started or the first picam
\* stream's preset changed.
C14_CameraFollowsFirstPreset ==
  /\ [](CycleOver /\ ~cl.raised =>
          IF HasSource(cl.source_to_streams, "picam")
          THEN /\ cl.picam_running
               /\ CameraRuns(cl.last_picam_preset)
          ELSE /\ ~cl.picam_running
               /\ picam.inst["shared"].process = 0
               /\ picam.live = {})
  /\ [][picam'.next_pid # picam.next_pid =>
          /\ cl.pc = "picam_manage"
          /\ HasSource(cl.source_to_streams, "picam")
          /\ \/ ~cl.picam_running
             \/ cl.last_picam_preset #
                  streams[ItemOf(cl.source_to_streams,
                                 "picam").streams[1]].picam_preset]_vars

\* A capture step of the loop whose source yielded no frame
NoFrameCaptured ==
  /\ cl.pc = "capture"
  /\ Len(cl'.attempts) = Len(cl.attempts) + 1
  /\ cl'.pc = "capture"

\* C15: the capture loop exits only when a running flag is false; a cycle
\* that raised leaves the loop at its test, from where the next cycle
\* begins while both flags are true; a capture that yields no frame changes
\* no stream, and at the end of a cycle every stream that was not served
\* has the sequence it had when the cycle began.
C15_LoopSurvives ==
  /\ [](cl.pc = "test" /\ mgr_running /\ running /\ cycle < MaxCycles
          => ENABLED CycleBegin)
  /\ [](CycleOver =>
          \A s \in Created :
            cl.pushed[s] = NoFrame => streams[s].frame_id = cl.start_ids[s])
  /\ [][/\ (cl.pc # "exited" /\ cl'.pc = "exited") =>
             (cl.pc = "test" /\ ~(mgr_running /\ running))
        /\ (~cl.raised /\ cl'.raised) => cl'.pc = "test"
        /\ NoFrameCaptured => streams' = streams]_vars

\* C15 happens: a cycle raised, and a later cycle has completed without an
\* exception, serving one source and getting no frame from another
C15_Witness ==
  /\ CycleOver
  /\ cl.errors >= 1
  /\ ~cl.raised
  /\ mgr_running /\ running
  /\ \E s, u \in Created :
       /\ cl.pushed[s] # NoFrame
       /\ cl.pushed[u] = NoFrame
       /\ streams[u].frame_id = cl.start_ids[u]

\* The streams of the picam partition of the current cycle
PicamStreams ==
  {s \in Created :
     \E k \in 1..Len(cl.source_to_streams) :
       /\ cl.source_to_streams[k].source = "picam"
       /\ s \in Range(cl.source_to_streams[k].streams)}

\* C16 as stated: an error in the capture of one source stays with that
\* source; in particular, whatever happened to the Kinect sources of a
\* cycle, the streams selecting picam receive their frame in that cycle
\* when the Pi camera held an image when the cycle began.
C16_ErrorsStayLocal ==
  (CycleOver /\ cl.picam_at_start) =>
     \A s \in PicamStreams :
       /\ cl.pushed[s] # NoFrame
       /\ streams[s].frame_id = cl.start_ids[s] + 1

(***************************************************************************)
(* The Pi camera after its subprocess has ended (SpecLifecycle).           *)
(***************************************************************************)
\* C17 as stated: once the camera subprocess has exited, the streams that
\* select picam receive no frame in the following cycles: no frame pushed
\* in a cycle is an image of a subprocess that had already ended when the
\* cycle began, and a stream that would get such an image keeps its frame
\* identifier.
C17_ExitedCameraGivesNoFrame ==
  CycleOver =>
    \A s \in PicamStreams :
      cl.pushed[s] # NoFrame => cl.pushed[s].pid \notin cl.exited_at_start

(***************************************************************************)
(* The order of the fields of /switch (SpecRequests).                      *)
(***************************************************************************)
\* The text sent for field f in query q ("" when the field is absent)
FieldText(q, f) ==
  IF f = "source" THEN q.source
  ELSE IF f = "quality" THEN q.quality
  ELSE IF f = "scale" THEN q.scale
  ELSE q.picam_res

\* Field f of query q is present and does not pass its validation
FieldInvalid(q, f) ==
  /\ FieldText(q, f) # ""
  /\ IF f = "source" THEN q.source \notin get_available_sources
     ELSE IF f = "quality"
     THEN \/ q.quality \notin DOMAIN IntOf
          \/ IntOf[q.quality] < MinQuality
          \/ IntOf[q.quality] > MaxQuality
     ELSE IF f = "scale"
     THEN \/ q.scale \notin DOMAIN FloatOf
          \/ FloatOf[q.scale] < MinScale
          \/ FloatOf[q.scale] > MaxScale
     ELSE q.picam_res \notin PICAM_PRESETS

\* The position in FieldOrder of the first invalid field of q, 5 if none
FirstInvalid(q) ==
  LET bad == {i \in 1..Len(FieldOrder) : FieldInvalid(q, FieldOrder[i])}
  IN  IF bad = {} THEN Len(FieldOrder) + 1
      ELSE CHOOSE i \in bad : \A j \in bad : i <= j

\* Stream record st holds the value that query q asks for field f
FieldApplied(st, q, f) ==
  IF f = "source" THEN st.current_source = q.source
  ELSE IF f = "quality" THEN st.jpeg_quality = IntOf[q.quality]
  ELSE IF f = "scale" THEN st.scale_factor = FloatOf[q.scale]
  ELSE st.picam_preset = q.picam_res

\* The fields of q that are present, among the first n of FieldOrder
RECURSIVE PresentBefore(_, _)
PresentBefore(q, n) ==
  IF n = 0 THEN << >>
  ELSE IF FieldText(q, FieldOrder[n]) # ""
  THEN Append(PresentBefore(q, n - 1), FieldOrder[n])
  ELSE PresentBefore(q, n - 1)

\* C18: /switch takes its fields in the order source, quality, scale,
\* picam_res.  With the first invalid field at position i, the answer is
\* 400 for that field, the present fields before i have been applied in
\* that order, and the field at i and every field after it keep their
\* values on the target stream; without an invalid field every present
\* field is applied and reported in that order.  It is stated of every
\* query that HttpSwitch may handle in the current state.
C18_FieldsInOrder ==
  last_req.n < MaxRequests =>
  \A q \in Queries :
    LET sid == IF q.stream = "" THEN "main" ELSE q.stream
        r == handle_switch(streams, "main", q)
        i == FirstInvalid(q)
    IN
    (q.has_query /\ sid \in Created) =>
      /\ r.parts = PresentBefore(q, i - 1)
      /\ \A j \in 1..(i - 1) :
           FieldText(q, FieldOrder[j]) # "" =>
             FieldApplied(r.streams[sid], q, FieldOrder[j])
      /\ \A j \in 1..Len(FieldOrder) :
           (j >= i \/ FieldText(q, FieldOrder[j]) = "") =>
             SameField(r.streams[sid], streams[sid], FieldOrder[j])
      /\ i <= Len(FieldOrder) =>
           /\ r.status = "400"
           /\ r.failed = FieldOrder[i]
      /\ i > Len(FieldOrder) =>
           r.status = IF r.parts = << >> THEN "400" ELSE "200"

\* C18 happens: /switch answered 400 for its scale field; the source and
\* the quality of the same request are applied, and the preset is not
C18_Witness ==
  /\ last_req.kind = "http"
  /\ last_req.status = "400"
  /\ last_req.failed = "scale"
  /\ last_req.parts = <<"source", "quality">>
  /\ last_req.stream = "secondary"
  /\ streams["secondary"].jpeg_quality = 50
  /\ streams["secondary"].stats.source_switches = 1
  /\ streams["secondary"].scale_factor = DefaultScale
  /\ streams["secondary"].picam_preset = DEFAULT_PICAM_PRESET

(***************************************************************************)
(* Requests for a Kinect source while the Kinect is unavailable            *)
(* (SpecRequests).                                                         *)
(***************************************************************************)
\* A step that handles a request for a Kinect source on an existing stream
\* while config.KINECT_AVAILABLE is false
KinectRequestWhileUnavailable ==
  /\ last_req'.n # last_req.n
  /\ last_req'.source \in KINECT_SOURCES
  /\ last_req'.stream \in Created
  /\ ~KINECT_AVAILABLE

\* C19: a request to switch a stream to a Kinect source while the Kinect
\* is unavailable is answered with HTTP 400 by /switch and with an ERROR
\* line by the control protocol, and the stream keeps its current_source
\* and its source_switches counter, as does every other stream.
C19_KinectSwitchRejected ==
  [][KinectRequestWhileUnavailable =>
       /\ last_req'.status = IF last_req'.kind = "http" THEN "400"
                             ELSE "ERROR"
       /\ last_req'.failed = "source"
       /\ \A s \in Created : SameField(streams'[s], streams[s], "source")]_vars

\* C19 happens: with the Kinect unavailable, kinect_rgb was asked for
\* stream secondary and refused; the stream is on picam and was never
\* switched
C19_Witness ==
  /\ ~KINECT_AVAILABLE
  /\ last_req.source = "kinect_rgb"
  /\ last_req.stream = "secondary"
  /\ last_req.status \in {"400", "ERROR"}
  /\ last_req.failed = "source"
  /\ streams["secondary"].current_source = "picam"
  /\ streams["secondary"].stats.source_switches = 0

(***************************************************************************)
(* SpecControl: two control connections at a time, each sending command    *)
(* lines, on the two streams of the default startup.                       *)
(***************************************************************************)
NextControl ==
  \/ \E k \in CtlConns : CtlConnect(k)
  \/ \E k \in CtlConns : CtlCommand(k)

SpecControl == InitRequests /\ [][NextControl]_vars

\* The commands of the control protocol that write a stream
WritingCommands ==
  Range(ALL_SOURCES) \cup {"quality", "scale", "picam_res"}

\* A step that handles a command line of a control connection
ControlStep ==
  /\ last_req'.n # last_req.n
  /\ last_req'.kind = "ctl"

\* C20: each control connection has its own cursor.  A command line of
\* connection k leaves every stream other than the one selected on k as
\* it was and leaves the cursor of every other connection as it was; only
\* select moves the cursor of k, a select of an unknown stream id does not,
\* and select writes no stream; an accepted quality command stores the
\* quality on the selected stream.
C20_OwnCursor ==
  [][/\ ControlStep =>
          LET k == last_req'.conn
              sel == ctl[k].selected_stream
          IN
          /\ \A s \in Created \ {sel} : streams'[s] = streams[s]
          /\ \A o \in CtlConns \ {k} : ctl'[o] = ctl[o]
          /\ last_req'.command \in WritingCommands =>
               ctl'[k] = ctl[k]
          /\ last_req'.command = "select" =>
               /\ streams' = streams
               /\ last_req'.status # "OK" => ctl'[k] = ctl[k]
          /\ (last_req'.command = "quality" /\ last_req'.status = "OK") =>
               /\ streams'[sel].jpeg_quality \in {50, 85}
               /\ streams'[sel] =
                    [streams[sel] EXCEPT
                       !.jpeg_quality = streams'[sel].jpeg_quality]
     /\ \A k \in CtlConns :
          (ctl[k].pc = "open" /\
           ctl'[k].selected_stream # ctl[k].selected_stream) =>
             /\ ControlStep
             /\ last_req'.conn = k
             /\ last_req'.command = "select"
             /\ last_req'.status = "OK"]_vars

\* C20 happens: the first connection has main selected and the second one
\* secondary; quality 85 on the first connection was accepted, and only
\* main has quality 85
C20_Witness ==
  /\ ctl["ctl1"].pc = "open" /\ ctl["ctl1"].selected_stream = "main"
  /\ ctl["ctl2"].pc = "open" /\ ctl["ctl2"].selected_stream = "secondary"
  /\ last_req.kind = "ctl"
  /\ last_req.conn = "ctl1"
  /\ last_req.command = "quality"
  /\ last_req.status = "OK"
  /\ streams["main"].jpeg_quality = 85
  /\ streams["secondary"].jpeg_quality = JPEG_QUALITY

(***************************************************************************)
(* The replies of the control server (SpecControl).                        *)
(***************************************************************************)
\* What was sent ends with the prompt token
EndsWithPrompt(reply) ==
  /\ reply # << >>
  /\ reply[Len(reply)] = "> "

\* C21 as stated: everything the control server sends - the banner and the
\* reply to every command line, quit included - ends with the prompt "> ".
C21_EveryReplyEndsWithPrompt ==
  last_req.kind = "ctl" => EndsWithPrompt(last_req.reply)

\* C21, amended: the banner and the reply to every command line other than
\* quit end with the prompt "> ", whether the command was accepted or
\* refused; the reply to quit is the line "Goodbye!" without a prompt, and
\* the connection is closed after it.
C21_ReplyEndsWithPromptUnlessQuit ==
  last_req.kind = "ctl" =>
    IF last_req.command = "quit"
    THEN /\ last_req.reply = <<"Goodbye!">>
         /\ ctl[last_req.conn].pc = "closed"
    ELSE /\ EndsWithPrompt(last_req.reply)
         /\ \A i \in 1..(Len(last_req.reply) - 1) : last_req.reply[i] # "> "

\* C21 happens: a quality command was refused, and its reply is the error
\* line followed by the prompt
C21_Witness ==
  /\ last_req.kind = "ctl"
  /\ last_req.command = "quality"
  /\ last_req.status = "ERROR"
  /\ last_req.reply = <<"ERROR", "> ">>
  /\ ctl[last_req.conn].pc = "open"

\* The command words that _handle_client recognises
KnownCommands ==
  {"streams", "select", "quality", "scale", "picam_res", "status", "help",
   "quit", "exit", "q"} \cup Range(ALL_SOURCES)

\* A step that handles a command line whose first word is not recognised
UnknownCommandStep ==
  /\ ControlStep
  /\ last_req'.command # ""
  /\ last_req'.command \notin KnownCommands

\* C22: an unrecognised command line is answered with an error line and
\* the prompt; the connection stays open, its cursor and the cursors of
\* the other connections stay as they were, and no stream is written; the
\* next command line sent on that connection is handled.
C22_UnknownCommandKeepsConnection ==
  /\ [][UnknownCommandStep =>
          /\ last_req'.reply = <<"Unknown command", "> ">>
          /\ ctl' = ctl
          /\ ctl'[last_req'.conn].pc = "open"
          /\ streams' = streams]_vars
  /\ []((/\ last_req.kind = "ctl"
         /\ last_req.command # ""
         /\ last_req.command \notin KnownCommands
         /\ last_req.n < MaxRequests)
          => ENABLED CtlCommand(last_req.conn))

\* C22 happens: the second connection, with secondary selected, sent an
\* unrecognised command line; it is still open with secondary selected
C22_Witness ==
  /\ last_req.kind = "ctl"
  /\ last_req.conn = "ctl2"
  /\ last_req.command = "reboot"
  /\ last_req.reply = <<"Unknown command", "> ">>
  /\ ctl["ctl2"].pc = "open"
  /\ ctl["ctl2"].selected_stream = "secondary"

(***************************************************************************)
(* SpecSettings: update_settings called with values inside and outside     *)
(* the ranges on the streams of the default startup.  Scales are in        *)
(* hundredths.                                                             *)
(***************************************************************************)
\* The keyword arguments of the update_settings calls
SettingsInputs ==
  [jpeg_quality : {-5, 50, 150}] \cup [scale_factor : {1, 50, 900}]
  \cup [jpeg_quality : {150}, scale_factor : {1}]

\* stream.update_settings(**kw) by any caller
SettingsCall(s) ==
  /\ s \in Created
  /\ streams[s].lock = Free
  /\ \E kw \in SettingsInputs :
       streams' = [streams EXCEPT ![s] = update_settings(@, kw)]
  /\ UNCHANGED << stream_order, running, shut, kinectVars, picamVars,
                  mgrVars, srvVars >>

NextSettings == \E s \in StreamIds : SettingsCall(s)

SpecSettings == InitStream /\ [][NextSettings]_vars

\* The integers and the scales (in hundredths) the clamps are checked on
ClampInputs == ((0 - 10)..210) \cup {900}

\* C23: update_settings clamps instead of rejecting.  For every integer q
\* it stores 1 when q < 1, 100 when q > 100 and q otherwise, and for every
\* scale s it stores 0.25 when s < 0.25, 2.0 when s > 2.0 and s otherwise
\* (150 -> 100, -5 -> 1, 9 -> 2.0, 0.01 -> 0.25), leaving the other fields
\* of the stream alone; every stream has jpeg_quality in [1,100] and
\* scale_factor in [0.25,2.0].
C23_SettingsClamped ==
  /\ \A s \in Created :
       /\ streams[s].jpeg_quality \in 1..100
       /\ streams[s].scale_factor \in 25..200
       /\ \A v \in ClampInputs :
            /\ update_settings(streams[s], [jpeg_quality |-> v]) =
                 [streams[s] EXCEPT !.jpeg_quality =
                    IF v < 1 THEN 1 ELSE IF v > 100 THEN 100 ELSE v]
            /\ update_settings(streams[s], [scale_factor |-> v]) =
                 [streams[s] EXCEPT !.scale_factor =
                    IF v < 25 THEN 25 ELSE IF v > 200 THEN 200 ELSE v]
  /\ ClampQuality(150) = 100 /\ ClampQuality(0 - 5) = 1
  /\ ClampScale(900) = 200 /\ ClampScale(1) = 25

\* C23 happens: update_settings was called with quality 150 and scale 0.01
\* on main and with quality -5 and scale 9 on secondary, the only calls that
\* can store these four values
C23_Witness ==
  /\ streams["main"].jpeg_quality = 100
  /\ streams["main"].scale_factor = 25
  /\ streams["secondary"].jpeg_quality = 1
  /\ streams["secondary"].scale_factor = 200

(***************************************************************************)
(* SpecLocks: the threads that take locks, side by side - a producer       *)
(* calling set_frame, a streaming connection in get_frame, the shutdown    *)
(* broadcast under the registry lock, a thread calling start and stop on   *)
(* the Pi camera, and the camera's reader thread.  The registry lock is    *)
(* held by shutdown while shut.pc = "notify".                              *)
(***************************************************************************)
\* The thread of SpecLocks that calls PiCameraCapture.start and stop
LockThreads == {"t1"}

NextLocks ==
  \/ \E t \in LockThreads : PicamCall(t)
  \/ \E t \in LockThreads : PicamThread(t)
  \/ PicamReader("shared")
  \/ PostFrame("main")
  \/ \E c \in StreamConns :
       \/ ConnOpen(c)
       \/ ConnLoop(c)
       \/ GetFrameTest(c)
       \/ WaitExpire(c)
       \/ WaitTimeout(c)
       \/ WaitWake(c)
       \/ ConnSend(c)
       \/ ConnFinally(c)
  \/ ShutdownBegin
  \/ ShutdownNotify

SpecLocks == InitPicamSpec /\ [][NextLocks]_vars

\* The stream locks that connection c holds
StreamLocksHeld(c) == {s \in Created : streams[s].lock = c}

\* Thread t holds a lock of the Pi camera
HoldsCameraLock(t) ==
  \/ picam.hardware_lock = t
  \/ \E i \in PiCams : picam.inst[i].lock = t

\* A step of connection c inside get_frame
GetFrameStep(c) ==
  GetFrameTest(c) \/ WaitExpire(c) \/ WaitTimeout(c) \/ WaitWake(c)

SameWrites(a, b) ==
  /\ a.frame = b.frame
  /\ a.frame_id = b.frame_id
  /\ a.stats.frames_captured = b.stats.frames_captured
  /\ a.current_source = b.current_source
  /\ a.stats.source_switches = b.stats.source_switches
  /\ a.jpeg_quality = b.jpeg_quality
  /\ a.scale_factor = b.scale_factor
  /\ a.picam_preset = b.picam_preset

\* C25 as stated: once GlobalState.shutdown has cleared the running flag
\* and notified every stream, no set_frame, set_source or update_settings
\* takes effect on any stream.
C25_NoWriteAfterShutdown ==
  [][shut.pc = "done" =>
       \A s \in Created : SameWrites(streams'[s], streams[s])]_vars

(***************************************************************************)
(* SpecShutdown: the streaming path of Spec together with the accept       *)
(* threads of the raw TCP and control servers and a control connection,    *)
(* under fair scheduling of every thread.  Blocking calls time out: the    *)
(* waits of get_frame, accept() and the control connection's recv().       *)
(***************************************************************************)
ShutdownCtl == {"ctl1"}

\* The capture cycles and the command lines of SpecShutdown
ShutdownCycles == 1
ShutdownCommands == {<<"status", "">>}

\* The capture thread (manager.py _capture_loop)
CaptureThread ==
  \/ ManagerStart
  \/ CycleBegin /\ cycle < ShutdownCycles
  \/ PicamManage
  \/ CapturePicam
  \/ Distribute
  \/ CycleEnd
  \/ Cleanup

\* The streaming connections of SpecShutdown: /stream/main over HTTP and
\* the raw TCP server's stream
ShutdownOpen(c) ==
  /\ ConnOpen(c)
  /\ conns'[c].stream = IF ConnKind(c) = "tcp" THEN "secondary" ELSE "main"

\* The thread of streaming connection c, once it is accepted
ConnThread(c) ==
  \/ ConnLoop(c)
  \/ GetFrameTest(c)
  \/ WaitExpire(c)
  \/ WaitTimeout(c)
  \/ WaitWake(c)
  \/ ConnSend(c)
  \/ ConnFinally(c)

\* The thread of control connection k, once it is accepted
CtlThread(k) ==
  \/ CtlCommandOf(k, ShutdownCommands)
  \/ CtlRecvEnds(k)

NextShutdown ==
  \/ CaptureThread
  \/ CameraPublish
  \/ \E c \in Conns : ShutdownOpen(c)
  \/ \E c \in Conns : ConnThread(c)
  \/ \E k \in ShutdownCtl : CtlConnect(k)
  \/ \E k \in ShutdownCtl : CtlThread(k)
  \/ TcpAcceptLoop
  \/ ControlAcceptLoop
  \/ ShutdownBegin
  \/ ShutdownNotify

SpecShutdown ==
  /\ Init
  /\ [][NextShutdown]_vars
  /\ WF_vars(CaptureThread)
  /\ \A c \in Conns : WF_vars(ConnThread(c))
  /\ \A k \in ShutdownCtl : WF_vars(CtlThread(k))
  /\ WF_vars(TcpAcceptLoop)
  /\ WF_vars(ControlAcceptLoop)
  /\ WF_vars(ShutdownNotify)

\* Every loop that reads the global running flag has ended
LoopsExited ==
  /\ cl.pc = "exited"
  /\ orch.tcp.pc = "exited"
  /\ orch.control.pc = "exited"
  /\ \A c \in Conns : conns[c].pc \in {"new", "closed"}
  /\ \A k \in ShutdownCtl : ctl[k].pc \in {"new", "closed"}

\* C26: once shutdown is signalled (the global running flag is false), the
\* capture loop, the TCP and control accept loops and the loop of every
\* streaming and control connection eventually exit, under fair scheduling
\* and with every blocking wait timing out.
C26_LoopsEventuallyExit == (~running) ~> LoopsExited

\* Shutdown was signalled while the capture loop, both accept loops, a
\* streaming connection of each kind and a control connection were running,
\* and all of them have ended
C26_Witness ==
  /\ ~running
  /\ LoopsExited
  /\ cycle >= 1
  /\ \A c \in Conns : conns[c].pc = "closed" /\ conns[c].stream # None
  /\ ctl["ctl1"].pc = "closed"

(***************************************************************************)
(* SpecOrchestrator: servers/orchestrator.py run_forever on the main       *)
(* thread, from the installation of the signal handlers to the return of   *)
(* the final stop_all(), with SIGINT/SIGTERM delivered at any point.  A    *)
(* Python signal handler runs on the main thread, on top of whatever the   *)
(* main thread was doing, which resumes when the handler returns.          *)
(***************************************************************************)
MaxSignals == 1

\* The frames posted to the raw TCP server's stream in SpecOrchestrator
OrchFrames == 1

\* The innermost stop_all() in progress
Top == orch.stack[Len(orch.stack)]

\* The main thread moves its innermost stop_all() to position pc
Goto(pc) == [orch EXCEPT !.stack[Len(orch.stack)] = pc]

\* run_forever lines 86-91: signal.signal installs the handlers
MainInstall ==
  /\ orch.main = "install"
  /\ orch' = [orch EXCEPT !.main = "start_tcp"]
  /\ UNCHANGED << stateVars, kinectVars, picamVars, mgrVars, conns, ctl,
                  last_req >>

\* start_all lines 48-49: TCPStreamServer.start sets running and starts the
\* accept thread
MainStartTcp ==
  /\ orch.main = "start_tcp" /\ orch.stack = << >>
  /\ orch' = [orch EXCEPT !.main = "start_control",
                          !.tcp = IF orch.tcp.running THEN @
                                  ELSE [running |-> TRUE, pc |-> "test"]]
  /\ UNCHANGED << stateVars, kinectVars, picamVars, mgrVars, conns, ctl,
                  last_req >>

\* start_all lines 52-53: ControlServer.start
MainStartControl ==
  /\ orch.main = "start_control" /\ orch.stack = << >>
  /\ orch' = [orch EXCEPT !.main = "start_http",
                          !.control = IF orch.control.running THEN @
                                      ELSE [running |-> TRUE, pc |-> "test"]]
  /\ UNCHANGED << stateVars, kinectVars, picamVars, mgrVars, conns, ctl,
                  last_req >>

\* start_all lines 56-59: the serve_forever thread is started
MainStartHttp ==
  /\ orch.main = "start_http" /\ orch.stack = << >>
  /\ orch' = [orch EXCEPT !.main = "loop", !.http = "serving"]
  /\ UNCHANGED << stateVars, kinectVars, picamVars, mgrVars, conns, ctl,
                  last_req >>

\* run_forever lines 100-106: the loop ends once running is false, and the
\* finally clause calls stop_all()
MainLoopExit ==
  /\ orch.main = "loop" /\ orch.stack = << >>
  /\ ~running
  /\ orch' = [orch EXCEPT !.main = "finally", !.stack = <<"shutdown">>]
  /\ UNCHANGED << stateVars, kinectVars, picamVars, mgrVars, conns, ctl,
                  last_req >>

\* signal_handler lines 86-88: a signal arrives once the handlers are
\* installed; the handler calls stop_all() on the main thread
Signal ==
  /\ orch.main \notin {"install", "returned"}
  /\ orch.signals < MaxSignals
  /\ orch' = [orch EXCEPT !.signals = @ + 1,
                          !.stack = Append(@, "shutdown")]
  /\ UNCHANGED << stateVars, kinectVars, picamVars, mgrVars, conns, ctl,
                  last_req >>

\* stop_all line 65, GlobalState.shutdown line 189: self.running = False
StopAllShutdown ==
  /\ orch.stack # << >> /\ Top = "shutdown"
  /\ running' = FALSE
  /\ orch' = Goto("lock")
  /\ UNCHANGED << streams, stream_order, shut, kinectVars, picamVars,
                  mgrVars, conns, ctl, last_req >>

\* GlobalState.shutdown line 191: `with self.lock`; the registry lock is a
\* threading.Lock, held while shut.pc is "notify"
StopAllLock ==
  /\ orch.stack # << >> /\ Top = "lock"
  /\ shut.pc # "notify"
  /\ shut' = [pc |-> "notify", todo |-> stream_order]
  /\ orch' = Goto("notify")
  /\ UNCHANGED << streams, stream_order, running, kinectVars, picamVars,
                  mgrVars, conns, ctl, last_req >>

\* GlobalState.shutdown lines 192-194: notify_all on each stream, then the
\* registry lock is released
StopAllNotify ==
  /\ orch.stack # << >> /\ Top = "notify"
  /\ streams[Head(shut.todo)].lock = Free
  /\ conns' = notify_all(conns, Head(shut.todo), "shutdown")
  /\ shut' = [shut EXCEPT !.todo = Tail(@),
                          !.pc = IF Tail(shut.todo) = << >> THEN "done"
                                 ELSE "notify"]
  /\ orch' = IF Tail(shut.todo) = << >> THEN Goto("http") ELSE orch
  /\ UNCHANGED << streams, stream_order, running, kinectVars, picamVars,
                  mgrVars, ctl, last_req >>

\* stop_all lines 68-69: server.shutdown() sets the shutdown request ...
StopAllHttpRequest ==
  /\ orch.stack # << >> /\ Top = "http"
  /\ orch' = [Goto("http_wait") EXCEPT !.http_request = TRUE]
  /\ UNCHANGED << stateVars, kinectVars, picamVars, mgrVars, conns, ctl,
                  last_req >>

\* ... and waits, with no timeout, for the event that serve_forever sets
\* when it ends
event_set(http) == http = "stopped"

StopAllHttpWait ==
  /\ orch.stack # << >> /\ Top = "http_wait"
  /\ event_set(orch.http)
  /\ orch' = Goto("tcp")
  /\ UNCHANGED << stateVars, kinectVars, picamVars, mgrVars, conns, ctl,
                  last_req >>

\* stop_all lines 72-73: TCPStreamServer.stop (tcp_server.py lines 161-175)
\* clears running, calls handler.stop() on the handlers that are in
\* self.handlers, clears the list and closes the socket.  The handler of a
\* connection is in the list from the moment its thread is started.
StopAllTcp ==
  /\ orch.stack # << >> /\ Top = "tcp"
  /\ orch' = [Goto("control") EXCEPT
                !.tcp.running = FALSE,
                !.handler_running =
                   IF conns["tcp1"].pc = "new" THEN @ ELSE FALSE]
  /\ UNCHANGED << stateVars, kinectVars, picamVars, mgrVars, conns, ctl,
                  last_req >>

\* stop_all lines 76-81: ControlServer.stop, then the joins with their
\* 2.0 s timeout; stop_all returns to what the main thread was doing
StopAllControl ==
  /\ orch.stack # << >> /\ Top = "control"
  /\ orch' = [orch EXCEPT
                !.control.running = FALSE,
                !.stack = SubSeq(@, 1, Len(@) - 1),
                !.main = IF Len(orch.stack) = 1 /\ orch.main = "finally"
                         THEN "returned" ELSE @]
  /\ UNCHANGED << stateVars, kinectVars, picamVars, mgrVars, conns, ctl,
                  last_req >>

\* socketserver serve_forever: the thread polls the shutdown request, and on
\* leaving resets it and sets the event
HttpServe ==
  /\ orch.http = "serving" /\ orch.http_request
  /\ orch' = [orch EXCEPT !.http = "stopped", !.http_request = FALSE]
  /\ UNCHANGED << stateVars, kinectVars, picamVars, mgrVars, conns, ctl,
                  last_req >>

\* The main thread
MainThread ==
  \/ MainInstall
  \/ MainStartTcp
  \/ MainStartControl
  \/ MainStartHttp
  \/ MainLoopExit
  \/ StopAllShutdown
  \/ StopAllLock
  \/ StopAllNotify
  \/ StopAllHttpRequest
  \/ StopAllHttpWait
  \/ StopAllTcp
  \/ StopAllControl

\* start_servers lines 126-137: the orchestrator is created, and
\* add_http_stream, add_tcp_stream and set_control_server create the three
\* servers and append them to its lists; start_all() is not called
start_servers == InitOrch

InitOrchestrator ==
  /\ InitProgram(start_servers)
  /\ InitPicam(TRUE)
  /\ InitKinect(FALSE, FALSE)
  /\ CreateStreams(StreamingOrder,
                   [s \in Range(StreamingOrder) |-> "picam"])

\* A connection is accepted while the thread that accepts it runs: the
\* accept thread of the raw TCP server, the serve_forever thread
Accepting(c) ==
  IF ConnKind(c) = "tcp" THEN orch.tcp.pc = "test" /\ orch.tcp.running
  ELSE orch.http = "serving"

NextOrchestrator ==
  \/ MainThread
  \/ Signal
  \/ HttpServe
  \/ TcpAcceptLoop
  \/ ControlAcceptLoop
  \/ \E c \in Conns : Accepting(c) /\ ConnOpen(c)
  \/ \E c \in Conns : ConnThread(c)
  \/ PostFrame("secondary") /\ streams["secondary"].frame_id < OrchFrames

SpecOrchestrator ==
  /\ InitOrchestrator
  /\ [][NextOrchestrator]_vars
  /\ WF_vars(MainThread)
  /\ WF_vars(HttpServe)
  /\ WF_vars(TcpAcceptLoop)
  /\ WF_vars(ControlAcceptLoop)
  /\ \A c \in Conns : WF_vars(ConnThread(c))

\* C27: stop_all() always returns: whenever a call of stop_all() is in
\* progress on the main thread - from a signal before, during or after
\* start_all(), or from run_forever's finally clause - the main thread
\* eventually has no stop_all() in progress.
C27_StopAllReturns == (orch.stack # << >>) ~> (orch.stack = << >>)

\* The streaming connections that are counted on stream s: those between
\* increment_clients and decrement_clients
OpenOn(s) ==
  {c \in Conns : conns[c].stream = s /\ conns[c].pc \notin {"new", "closed"}}

ClientsConnected(sts, s) == sts[s].stats.clients_connected

\* C28: clients_connected of every stream is never negative and is the
\* number of HTTP and raw TCP streaming connections open on the stream; the
\* step in which a connection starts streaming adds exactly one, the step
\* in which it ends (closed peer, failed send, stopped handler, shutdown)
\* takes exactly one away and changes neither another connection nor the
\* capture loop.
C28_ClientsCounted ==
  /\ [](\A s \in Created :
          /\ ClientsConnected(streams, s) >= 0
          /\ ClientsConnected(streams, s) = Cardinality(OpenOn(s)))
  /\ [][\A c \in Conns :
          /\ conns[c].pc = "new" /\ conns'[c].pc = "loop"
             => ClientsConnected(streams', conns'[c].stream)
                  = ClientsConnected(streams, conns'[c].stream) + 1
          /\ conns[c].pc \notin {"new", "closed"} /\ conns'[c].pc = "closed"
             => /\ ClientsConnected(streams', conns[c].stream)
                     = ClientsConnected(streams, conns[c].stream) - 1
                /\ \A d \in Conns \ {c} : conns'[d] = conns[d]
                /\ cl' = cl]_vars

\* Both connections streamed 'secondary'; the HTTP connection has ended and
\* the raw TCP connection, whose handler was stopped, is the one counted
C28_Witness ==
  /\ conns["http1"].pc = "closed" /\ conns["http1"].stream = "secondary"
  /\ conns["tcp1"].pc \in {"loop", "finally"}
  /\ ~orch.handler_running
  /\ ClientsConnected(streams, "secondary") = 1

(***************************************************************************)
(* SpecStatus: the status snapshot, requested while the capture loop       *)
(* counts Kinect failures and callers probe the Kinect again.              *)
(***************************************************************************)
\* manager.py lines 12-19: `from .config import KINECT_AVAILABLE` binds the
\* name in manager.py to the value the flag has when manager.py is imported,
\* which is before the startup probe: config.py line 84 gave it the value
\* of FREENECT_AVAILABLE.  update_kinect_availability (config.py lines
\* 96-99) rebinds the name in config.py only.
manager_flag(imported, current) == imported

\* StreamManager.get_status lines 256-261, without the per-stream part
get_status ==
  [running |-> mgr_running,
   kinect_available |-> manager_flag(FREENECT_AVAILABLE, KINECT_AVAILABLE),
   available_sources |-> get_available_sources]

\* HTTP /status, raw TCP 0x01 and control 'status all' all send
\* manager.get_status()
StatusRequest ==
  /\ last_req' = [last_req EXCEPT !.kind = "status",
                                  !.command = "status",
                                  !.reply = <<get_status>>]
  /\ UNCHANGED << stateVars, kinectVars, picamVars, mgrVars, conns, ctl,
                  orch >>

NextStatus ==
  \/ ManagerStart
  \/ CycleBegin
  \/ PicamManage
  \/ CapturePicam
  \/ CaptureKinect
  \/ Distribute
  \/ CycleEnd
  \/ CameraPublish
  \/ KinectProbe
  \/ StatusRequest

SpecStatus == InitCapture /\ [][NextStatus]_vars

\* C29: every status snapshot sent reports, as kinect_available, the value
\* the global Kinect availability flag has when the snapshot is taken, and
\* lists the Kinect sources in available_sources exactly when it reports
\* kinect_available.
C29_StatusShowsAvailability ==
  [][last_req'.kind = "status" /\ last_req' # last_req
     => LET snapshot == last_req'.reply[1] IN
        /\ snapshot.kinect_available = KINECT_AVAILABLE
        /\ (KINECT_SOURCES \subseteq snapshot.available_sources)
             <=> snapshot.kinect_available]_vars

(***************************************************************************)
(* SpecWakeup: a producer posts frames to 'secondary' while an HTTP and a  *)
(* raw TCP connection consume them, under fair scheduling: a thread that   *)
(* can take a step again and again, the mutex being free again and again,  *)
(* eventually takes it.                                                    *)
(***************************************************************************)
NextWakeup ==
  \/ PostFrame("secondary")
  \/ \E c \in Conns : ConnOpen(c)
  \/ \E c \in Conns : ConnThread(c)
  \/ ShutdownBegin
  \/ ShutdownNotify

SpecWakeup ==
  /\ InitStream
  /\ [][NextWakeup]_vars
  /\ \A c \in Conns : SF_vars(ConnThread(c))

\* Consumer c is blocked in Condition.wait of get_frame on stream s
BlockedOn(c, s) == conns[c].stream = s /\ conns[c].pc = "waiting"

\* A set_frame on stream s takes effect in this step
SetFrameStep(s) == streams'[s].frame_id # streams[s].frame_id

\* C30: no wakeup is missed.  A consumer tests the sequence and starts to
\* wait under the stream's mutex, so no set_frame falls between its test
\* and its wait; a set_frame wakes every consumer that waits on the stream
\* and whose timeout has not fired; and under fair scheduling a consumer
\* woken by a frame returns from get_frame with a frame, the sequence of
\* the stream being by then beyond the one it passed in.
C30_NoMissedWakeup ==
  /\ [](\A c \in Conns :
          conns[c].pc = "gf_test" => streams[conns[c].stream].lock = c)
  /\ [][\A s \in Created : \A c \in Conns :
          SetFrameStep(s) /\ BlockedOn(c, s)
            => /\ conns'[c].pc = "notified"
               /\ streams'[s].frame_id > conns'[c].last_frame_id]_vars
  /\ \A c \in Conns :
       (conns[c].pc = "notified" /\ conns[c].woke_by = "frame")
       ~> (conns[c].pc = "sending" /\ conns[c].frame # NoFrame)

\* A consumer entered get_frame with the stream's sequence, waited, and a
\* set_frame has since advanced the sequence and notified it
C30_Witness ==
  \E c \in Conns :
    /\ conns[c].pc = "notified" /\ conns[c].woke_by = "frame"
    /\ streams[conns[c].stream].frame_id = conns[c].last_frame_id + 1

\* The three servers have been started and none has been stopped
ServersStarted ==
  /\ orch.tcp.running
  /\ orch.control.running
  /\ orch.http = "serving"

\* C31: the orchestrator that start_servers returns is already running:
\* before the caller has done anything with it (run_forever has not yet
\* installed its handlers nor called start_all), the HTTP server, the raw
\* TCP server and the control server have been started.
C31_StartServersStarts == orch.main = "install" => ServersStarted

(***************************************************************************)
(* SpecSharing: the capture loop on three streams of which two share a     *)
(* Kinect source, while the quality and the scale of 'main' and            *)
(* 'secondary' are changed.                                                *)
(***************************************************************************)
SharingSettings == {[jpeg_quality |-> 50], [scale_factor |-> 50]}

NextSharing ==
  \/ ManagerStart
  \/ CycleBegin
  \/ PicamManage
  \/ CapturePicam
  \/ CaptureKinect
  \/ Distribute
  \/ CycleEnd
  \/ CameraPublish
  \/ \E s \in {"main", "secondary"} : CallUpdateSettingsOf(s, SharingSettings)

SpecSharing == InitCapture /\ [][NextSharing]_vars

\* The capture of the source at cl.idx returns bytes in this step
CaptureReturnsBytes == cl.pc = "capture" /\ cl'.pc = "distribute"

\* C32: the one capture of a source shared by several streams is encoded
\* with the quality and the scale that the first stream of the source, in
\* registry order, has when the capture runs (the Pi camera's image is
\* taken from the frame buffer as it is); every stream of the source is
\* handed those bytes, whatever its own quality and scale.
C32_FirstStreamSettings ==
  /\ [][CaptureReturnsBytes =>
          LET item == cl.source_to_streams[cl.idx]
              first == item.streams[1]
          IN  /\ cl'.todo = item.streams
              /\ IF item.source \in KINECT_SOURCES
                 THEN /\ cl'.jpeg_bytes.quality = streams[first].jpeg_quality
                      /\ cl'.jpeg_bytes.scale = streams[first].scale_factor
                 ELSE cl'.jpeg_bytes = picam_get_frame(picam, "shared")]_vars
  /\ [][\A s \in Created :
          cl.pc = "distribute" /\ streams'[s].frame_id # streams[s].frame_id
            => streams'[s].frame = cl.jpeg_bytes]_vars

\* 'secondary' shares kinect_rgb with 'main', asks for another quality than
\* 'main' and holds a frame of this cycle encoded with the quality of 'main'
C32_Witness ==
  /\ streams["main"].current_source = "kinect_rgb"
  /\ streams["secondary"].current_source = "kinect_rgb"
  /\ streams["secondary"].jpeg_quality = 50
  /\ streams["main"].jpeg_quality = JPEG_QUALITY
  /\ cl.pc = "test" /\ cycle >= 1
  /\ cl.pushed["secondary"] # NoFrame
  /\ streams["secondary"].frame = cl.pushed["secondary"]
  /\ streams["secondary"].frame.quality = JPEG_QUALITY

(***************************************************************************)
(* C34: the source of the frames a stream receives across switch_source    *)
(* (SpecLifecycle).                                                        *)
(***************************************************************************)
\* The set_frame of the capture loop stores a frame into stream s
StoresInto(s) ==
  /\ cl.pc = "distribute"
  /\ s = Head(cl.todo)
  /\ streams'[s].stats.frames_captured = streams[s].stats.frames_captured + 1

\* C34: every frame the capture loop stores into a stream was captured from
\* the source the stream has selected at the moment of set_frame, so that a
\* stream whose switch_source has returned receives no further frame of its
\* previous source
C34_FramesOfSelectedSource ==
  [][\A s \in StreamIds :
       StoresInto(s) => cl.jpeg_bytes.src = streams[s].current_source]_vars

(***************************************************************************)
(* manager.py: StreamManager.start() and stop() as their caller executes   *)
(* them, one call after the other.  cl is the capture thread of the first  *)
(* start(); mcall.later holds the threads further start() calls created.   *)
(***************************************************************************)
MaxStarts == 2   \* start() calls after the first one
MaxStops == 2    \* stop() calls

\* start() lines 113-118 after the first start(): nothing while _running,
\* otherwise _running = True and one more capture thread
ManagerStartAgain ==
  /\ mcall.pc = "idle"
  /\ cl.pc # "not_started"
  /\ Len(mcall.later) < MaxStarts
  /\ IF mgr_running
     THEN /\ mcall' = [mcall EXCEPT !.later = Append(@, "none")]
          /\ mgr_running' = mgr_running
     ELSE /\ mcall' = [mcall EXCEPT !.later = Append(@, "test")]
          /\ mgr_running' = TRUE
  /\ UNCHANGED << stateVars, kinectVars, picamVars, cl, cycle, srvVars >>

\* _capture_loop of a thread created by a later start(): the loop test of
\* line 151 and, when it fails, lines 184-185
LaterThread(k) ==
  /\ k \in 1..Len(mcall.later)
  /\ mcall.later[k] = "test"
  /\ IF loop_flags(mgr_running)
     THEN /\ mcall' = [mcall EXCEPT !.later[k] = "cycling"]
          /\ picam' = picam
     ELSE /\ LocksFree(picam, "shared")
          /\ picam' = stop(picam, "shared")
          /\ mcall' = [mcall EXCEPT !.later[k] = "exited"]
  /\ UNCHANGED << stateVars, kinectVars, pcall, reader, mgr_running, cl,
                  cycle, srvVars >>

\* stop() line 122: self._running = False
ManagerStopBegin ==
  /\ mcall.pc = "idle"
  /\ mcall.stops < MaxStops
  /\ mgr_running' = FALSE
  /\ mcall' = [mcall EXCEPT !.pc = "shutdown"]
  /\ UNCHANGED << stateVars, kinectVars, picamVars, cl, cycle, srvVars >>

\* stop() line 123: self.state.shutdown() clears the global flag and starts
\* notifying the streams
ManagerStopShutdown ==
  /\ mcall.pc = "shutdown"
  /\ shut.pc \in {"idle", "done"}
  /\ running' = FALSE
  /\ shut' = [pc |-> "notify", todo |-> stream_order]
  /\ mcall' = [mcall EXCEPT !.pc = "join"]
  /\ UNCHANGED << streams, stream_order, kinectVars, picamVars,
                  mgr_running, cl, cycle, srvVars >>

\* stop() lines 124-126: join(timeout=2.0) returns when the capture thread
\* has exited or when the two seconds are over, whichever comes first
ManagerStopJoin ==
  /\ mcall.pc = "join"
  /\ shut.pc = "done"
  /\ mcall' = [mcall EXCEPT !.pc = "stop_sources"]
  /\ UNCHANGED << stateVars, kinectVars, picamVars, mgr_running, cl, cycle,
                  srvVars >>

\* stop() lines 128-130: kinect.stop() and picam.stop(), then stop() returns
ManagerStopSources ==
  /\ mcall.pc = "stop_sources"
  /\ LocksFree(picam, "shared")
  /\ picam' = stop(picam, "shared")
  /\ mcall' = [mcall EXCEPT !.pc = "idle", !.stops = @ + 1,
                            !.pid_at_stop = picam.next_pid]
  /\ UNCHANGED << stateVars, kinectVars, pcall, reader, mgr_running, cl,
                  cycle, srvVars >>

(***************************************************************************)
(* SpecManager: one stream on the Pi camera whose preset changes, the      *)
(* capture loop, and a caller of StreamManager.start() and stop().         *)
(***************************************************************************)
ManagerCycles == 2

InitManager ==
  /\ InitCommon
  /\ InitPicam(TRUE)
  /\ InitKinect(FALSE, FALSE)
  /\ CreateStreams(<<"main">>, [s \in {"main"} |-> "picam"])

NextManager ==
  \/ ManagerStart /\ mcall.pc = "idle"
  \/ CycleBegin /\ cycle < ManagerCycles
  \/ PicamManage
  \/ CapturePicam
  \/ Distribute
  \/ CycleEnd
  \/ Cleanup
  \/ CameraPublish
  \/ CallUpdateSettingsOf("main", {[picam_preset |-> "low"]})
  \/ ManagerStartAgain
  \/ \E k \in 1..MaxStarts : LaterThread(k)
  \/ ManagerStopBegin
  \/ ManagerStopShutdown
  \/ ShutdownNotify
  \/ ManagerStopJoin
  \/ ManagerStopSources

SpecManager == InitManager /\ [][NextManager]_vars

(***************************************************************************)
(* C33: one capture thread at a time (SpecManager).                        *)
(***************************************************************************)
\* The capture threads that are inside a capture cycle
Cycling ==
  (IF cl.pc \in {"picam_manage", "capture", "distribute"} THEN {0} ELSE {})
  \cup {k \in 1..Len(mcall.later) : mcall.later[k] = "cycling"}

\* C33: after any sequence of start() and stop() calls at most one capture
\* thread is executing capture cycles; a start() while started creates no
\* thread, and the thread of a start() after a stop() runs no cycle while
\* the previous thread is still finishing its own
C33_OneCaptureThread ==
  /\ [](Cardinality(Cycling) <= 1)
  /\ [][mgr_running /\ Len(mcall'.later) > Len(mcall.later)
        => mcall'.later = Append(mcall.later, "none")]_vars

\* A start() after a stop() whose join timed out has created a thread while
\* the previous one is still inside its cycle
C33_Witness ==
  /\ cl.pc \in {"picam_manage", "capture", "distribute"}
  /\ \E k \in 1..Len(mcall.later) : mcall.later[k] \in {"test", "exited"}

(***************************************************************************)
(* C39: no camera subprocess outlives stop() and the capture thread        *)
(* (SpecManager).                                                          *)
(***************************************************************************)
\* stop() has returned and every capture thread that was created has exited
StoppedAndExited ==
  /\ mcall.pc = "idle"
  /\ mcall.stops > 0
  /\ cl.pc = "exited"
  /\ \A k \in 1..Len(mcall.later) : mcall.later[k] \in {"none", "exited"}

\* C39: once StreamManager.stop() has returned and the capture thread has
\* exited, no Pi camera subprocess is running, also when the bounded join
\* of stop() gave up on a cycle that was starting or restarting the camera
C39_NoCameraLeftRunning ==
  StoppedAndExited =>
    /\ picam.live = {}
    /\ \A i \in PiCams : picam.inst[i].process = 0 /\ ~picam.inst[i].running

\* stop() returned before the cycle in progress launched the camera
\* subprocess, and that thread has exited since
C39_Witness ==
  /\ StoppedAndExited
  /\ picam.next_pid > mcall.pid_at_stop
  /\ mcall.pid_at_stop > 0

(***************************************************************************)
(* sources/picam.py _capture_loop lines 114-140: the scan of the reader's  *)
(* buffer for JPEG images.  Bytes are numbers; positions count from 1 and  *)
(* 0 stands for the -1 of bytes.find.                                      *)
(***************************************************************************)
SOI == <<255, 216>>   \* b'\xff\xd8'
EOI == <<255, 217>>   \* b'\xff\xd9'

\* bytes.find(marker, from): the first position at or after `from` where
\* the two bytes of the marker stand
Find(buffer, marker, from) ==
  LET hits == {k \in from..(Len(buffer) - 1) :
                 buffer[k] = marker[1] /\ buffer[k + 1] = marker[2]}
  IN  IF hits = {} THEN 0 ELSE CHOOSE k \in hits : \A j \in hits : k <= j

\* lines 122-140, the inner `while True`: without a start marker the buffer
\* is emptied; without an end marker it is cut to the start marker; else
\* the image is published and the scan goes on behind it
RECURSIVE Scan(_, _)
Scan(buffer, images) ==
  LET soi == Find(buffer, SOI, 1)
      eoi == Find(buffer, EOI, soi)
  IN  IF soi = 0 THEN [buffer |-> << >>, images |-> images]
      ELSE IF eoi = 0
      THEN [buffer |-> SubSeq(buffer, soi, Len(buffer)), images |-> images]
      ELSE Scan(SubSeq(buffer, eoi + 2, Len(buffer)),
                Append(images, SubSeq(buffer, soi, eoi + 1)))

(***************************************************************************)
(* SpecChunks: the reader consumes an output of the camera subprocess in   *)
(* reads of ChunkSize bytes (the read(4096) of line 117 on the buffered    *)
(* pipe returns that many bytes, or what is left at the end of the output) *)
(***************************************************************************)
MaxBytes == 5     \* length of the subprocess output
ChunkSize == 2    \* bytes one read returns, standing for 4096

Bytes == {0, 216, 217, 255}
ByteStreams == UNION {[1..n -> Bytes] : n \in 0..MaxBytes}

InitChunks ==
  /\ InitCommon
  /\ InitKinect(FALSE, FALSE)
  /\ CreateStreams(StreamingOrder,
                   [s \in Range(StreamingOrder) |-> "picam"])
  /\ \E s \in ByteStreams :
       InitPicamWith(TRUE, [InitReader EXCEPT !.stream = s, !.pipe = s])

\* lines 117-140: one read and the scan of the buffer it extends
ReadChunk ==
  /\ reader.pipe # << >>
  /\ LET n == Min(ChunkSize, Len(reader.pipe))
         r == Scan(reader.buffer \o SubSeq(reader.pipe, 1, n), reader.images)
     IN  reader' = [reader EXCEPT
                      !.pipe = SubSeq(@, n + 1, Len(@)),
                      !.buffer = r.buffer,
                      !.images = r.images]
  /\ UNCHANGED << stateVars, kinectVars, picam, pcall, mgrVars, srvVars >>

SpecChunks == InitChunks /\ [][ReadChunk]_vars

(***************************************************************************)
(* C37: the published images and the chunking of the output (SpecChunks).  *)
(***************************************************************************)
\* C37: the images the reader publishes do not depend on how the output of
\* the subprocess is split into read chunks: once the whole output is read,
\* they are the images a single read of the whole output yields, each from
\* a start marker through the first end marker that follows it
C37_ChunkingIndependent ==
  reader.pipe = << >> =>
    reader.images = Scan(reader.stream, << >>).images

(***************************************************************************)
(* sources/picam.py _capture_loop lines 112-144 as the reader thread of    *)
(* subprocess p executes it, for the shared instance.  Thread p exists     *)
(* once start() has launched subprocess p (lines 98-101).                  *)
(***************************************************************************)
\* line 115 and the receiver of line 117: the loop test reads self.running
\* and self.process as they are now, and the read is issued on the stdout
\* of that process
ReaderTest(p) ==
  LET me == picam.inst["shared"] IN
  /\ p < picam.next_pid
  /\ reader.threads[p].pc = "test"
  /\ reader' = [reader EXCEPT !.threads[p] =
       IF me.running /\ me.process # 0
       THEN [@ EXCEPT !.pc = "read", !.from = me.process,
                      !.preset = me.current_preset]
       ELSE [@ EXCEPT !.pc = "exited"]]
  /\ UNCHANGED << stateVars, kinectVars, picam, pcall, mgrVars, srvVars >>

\* lines 117-134: the read returns the bytes of a complete image of the
\* process it was issued on, or nothing once that process has ended
ReaderRead(p) ==
  LET th == reader.threads[p] IN
  /\ th.pc = "read"
  /\ IF th.from \in picam.live
     THEN /\ th.reads < MaxImages
          /\ reader' = [reader EXCEPT !.threads[p] =
               [@ EXCEPT !.pc = "publish", !.reads = @ + 1,
                         !.jpeg_data = [src |-> "picam", pid |-> th.from,
                                        preset |-> th.preset,
                                        n |-> th.reads + 1]]]
     ELSE reader' = [reader EXCEPT !.threads[p].pc = "exited"]
  /\ UNCHANGED << stateVars, kinectVars, picam, pcall, mgrVars, srvVars >>

\* lines 136-137: `with self.lock: self.frame_buffer = jpeg_data`
ReaderStore(p) ==
  /\ reader.threads[p].pc = "publish"
  /\ picam.inst["shared"].lock = Free
  /\ picam' = [picam EXCEPT
       !.inst["shared"].frame_buffer = reader.threads[p].jpeg_data]
  /\ reader' = [reader EXCEPT !.threads[p].pc = "test"]
  /\ UNCHANGED << stateVars, kinectVars, pcall, mgrVars, srvVars >>

(***************************************************************************)
(* SpecReader: a caller starts the shared Pi camera with changing presets  *)
(* and stops it, while the reader threads run.                             *)
(***************************************************************************)
\* PiCameraCapture.start(preset) by a caller that finds both locks free
CameraStart ==
  /\ LocksFree(picam, "shared")
  /\ picam.next_pid <= MaxSpawns
  /\ \E preset \in {"high", "low"} :
       /\ ~running_same(picam, "shared", preset)
       /\ picam' = start(picam, "shared", preset, TRUE)
  /\ UNCHANGED << stateVars, kinectVars, pcall, reader, mgrVars, srvVars >>

\* PiCameraCapture.stop() by a caller that finds both locks free
CameraStop ==
  /\ LocksFree(picam, "shared")
  /\ picam.inst["shared"].process # 0
  /\ picam' = stop(picam, "shared")
  /\ UNCHANGED << stateVars, kinectVars, pcall, reader, mgrVars, srvVars >>

NextReader ==
  \/ CameraStart
  \/ CameraStop
  \/ CameraExit
  \/ \E p \in 1..MaxSpawns : ReaderTest(p) \/ ReaderRead(p) \/ ReaderStore(p)

SpecReader == Init /\ [][NextReader]_vars

(***************************************************************************)
(* C35: the frame buffer after stop() (SpecReader).                        *)
(***************************************************************************)
\* C35: after PiCameraCapture.stop() has returned and before any later
\* start(), get_frame() returns no frame: no reader thread of the stopped
\* session stores an image into the frame buffer stop() cleared
C35_NoFrameAfterStop ==
  (picam.inst["shared"].process = 0 /\ ~picam.inst["shared"].running)
     => picam_get_frame(picam, "shared") = NoFrame

(***************************************************************************)
(* C36: the reader threads across a restart (SpecReader).                  *)
(***************************************************************************)
\* C36: after a restart with a new preset only the reader thread created
\* for the current subprocess reads its output: the reader thread of the
\* terminated subprocess exits without ever reading from the new one
C36_ReadersReadOwnProcess ==
  \A p \in 1..MaxSpawns :
     reader.threads[p].pc \in {"read", "publish"}
        => reader.threads[p].from = p

(***************************************************************************)
(* servers/tcp_server.py _accept_loop lines 143-154, step by step: the     *)
(* accept() that returns a client, the creation of its handler, which is   *)
(* appended to self.handlers and whose thread is started, and the way     *)
(* back to the loop test.                                                  *)
(***************************************************************************)
\* line 145: an iteration that passed the loop test gets a client from
\* accept()
TcpAccept ==
  /\ orch.tcp.pc = "test"
  /\ loop_flags(orch.tcp.running)
  /\ conns["tcp1"].pc = "new"
  /\ orch' = [orch EXCEPT !.tcp.pc = "accepted"]
  /\ UNCHANGED << stateVars, kinectVars, picamVars, mgrVars, conns, ctl,
                  last_req >>

\* lines 149-153: TCPStreamHandler(...) with running = True, the append to
\* self.handlers, and the handler thread, which begins handle()
TcpHandlerStart ==
  /\ orch.tcp.pc = "accepted"
  /\ ConnOpen("tcp1")

\* the end of the iteration: back to the loop test
TcpAcceptNext ==
  /\ orch.tcp.pc = "accepted"
  /\ conns["tcp1"].pc # "new"
  /\ orch' = [orch EXCEPT !.tcp.pc = "test"]
  /\ UNCHANGED << stateVars, kinectVars, picamVars, mgrVars, conns, ctl,
                  last_req >>

(***************************************************************************)
(* SpecAccept: run_forever with a raw TCP client that connects at any      *)
(* time, and a signal that makes the main thread stop the servers.         *)
(***************************************************************************)
NextAccept ==
  \/ MainThread
  \/ Signal
  \/ HttpServe
  \/ TcpAcceptLoop
  \/ ControlAcceptLoop
  \/ TcpAccept
  \/ TcpHandlerStart
  \/ TcpAcceptNext
  \/ ConnThread("tcp1")
  \/ PostFrame("secondary") /\ streams["secondary"].frame_id < OrchFrames

SpecAccept == InitOrchestrator /\ [][NextAccept]_vars

(***************************************************************************)
(* C38: the handlers after TCPStreamServer.stop() (SpecAccept).            *)
(***************************************************************************)
\* TCPStreamServer.stop() has run on the started server and returned
TcpStopReturned == orch.tcp.pc # "not_started" /\ ~orch.tcp.running

\* C38: after TCPStreamServer.stop() has returned, every connection handler
\* the server accepted has been signalled to stop (its running flag is
\* false), also the handler of a connection the accept loop was accepting
\* while stop() ran
C38_HandlersStopped ==
  (TcpStopReturned /\ conns["tcp1"].pc # "new") => ~orch.handler_running

(***************************************************************************)
(* manager.py: StreamManager.create_stream, lines 59-79                    *)
(***************************************************************************)
\* A create_stream that takes the requested source as it is
create_unvalidated(initial_source) == initial_source

\* create_stream: the source the new stream starts on.  The default reads
\* the manager module's own copy of KINECT_AVAILABLE (line 70); a source
\* that get_available_sources() does not list becomes 'picam' (lines 73-76)
create_stream(initial_source) ==
  LET wanted == IF initial_source = None
                THEN IF manager_flag(FREENECT_AVAILABLE, KINECT_AVAILABLE)
                     THEN "kinect_rgb" ELSE "picam"
                ELSE initial_source
  IN  IF wanted \in get_available_sources THEN wanted ELSE "picam"

\* The sources create_stream is called with
CreateSources == {None, "picam", "kinect_depth", "webcam"}

\* manager.create_stream(id, initial_source) for an id that is not taken
\* (GlobalState.create_stream, state.py lines 160-167)
CreateStream ==
  \E id \in Range(StreamingOrder) \ Created, src \in CreateSources :
    /\ stream_order' = Append(stream_order, id)
    /\ streams' = [s \in Created \cup {id} |->
                     IF s = id THEN NewStream(create_stream(src))
                     ELSE streams[s]]
    /\ UNCHANGED << running, shut, kinectVars, picamVars, mgrVars, srvVars >>

(***************************************************************************)
(* SpecCreate: streams are created with any requested source, and the      *)
(* /switch requests and control commands of SpecRequests act on them.      *)
(***************************************************************************)
InitCreate ==
  /\ InitCommon
  /\ InitPicam(TRUE)
  /\ \E ok \in BOOLEAN : InitKinect(TRUE, ok)
  /\ CreateStreams(<< >>, << >>)

NextCreate ==
  \/ CreateStream
  \/ NextRequests

SpecCreate == InitCreate /\ [][NextCreate]_vars

(***************************************************************************)
(* C40: the values of current_source and picam_preset (SpecCreate).        *)
(***************************************************************************)
\* C40: in every state reachable through create_stream and the servers,
\* each stream's current_source is one of the four known sources and its
\* picam_preset one of the configured presets; neither an accepted nor a
\* rejected request introduces another value
C40_KnownSourceAndPreset ==
  \A s \in Created :
     /\ streams[s].current_source \in Range(ALL_SOURCES)
     /\ streams[s].picam_preset \in PICAM_PRESETS

\* Both streams exist, one of them was switched away from the camera and
\* given another preset, and the last request was rejected for its value
C40_Witness ==
  /\ Created = Range(StreamingOrder)
  /\ \E s \in Created : /\ streams[s].stats.source_switches > 0
                        /\ streams[s].picam_preset = "low"
  /\ last_req.failed \in {"source", "picam_res"}

====
